---- MODULE Spec2Model ----
(***************************************************************************)
(* Model of the mesh client's two ingestion paths: the radio session kept  *)
(* by the useDevice hook (src/renderer/hooks/useDevice.ts) and the broker  *)
(* bridge MQTTManager (main/mqtt-manager.ts, src/unnamed/part_002).        *)
(*                                                                         *)
(* One module, several specifications over the same variables: each        *)
(* specification moves the part of the state its claims are about and      *)
(* leaves the rest at its initial value.                                   *)
(*   SpecDedup   MQTTManager: session, dedup window, inbound decode        *)
(*   SpecMsg     renderer message list: radio text packets, broker events  *)
(*   SpecNodes   renderer node map: radio and broker node updates          *)
(*   SpecConn    radio connection session: connect, loss, reconnect        *)
(***************************************************************************)
EXTENDS Integers, Sequences, FiniteSets, TLC

\* ------------------------------------------------------------------ bounds
MaxPacketId == 2
MaxNodeId == 1
MaxTicks == 3

\* --------------------------------------------------------- program constants
DEDUP_TTL_MS == 600000
\* The prune thresholds are 10_000 (MQTTManager) and 5_000 (useDevice) in the
\* source. The windows of the model hold at most MaxPacketId entries, so the
\* thresholds are scaled down to sizes the model reaches; the code compares
\* only size > threshold.
MgrPruneSize == 1
RfPruneSize == 1

PacketIds == 0 .. MaxPacketId
NodeIds == 0 .. MaxNodeId

\* ------------------------------------------------------------------ helpers
\* A JavaScript Map as a function whose domain is the set of keys present.
EmptyMap == [k \in {} |-> 0]

Min(a, b) == IF a < b THEN a ELSE b

Pow2(n) == IF n <= 0 THEN 1 ELSE 2 ^ n

MapHas(m, k) == k \in DOMAIN m

MapSet(m, k, v) == [x \in (DOMAIN m) \cup {k} |-> IF x = k THEN v ELSE m[x]]

\* for (const [id, expiry] of map) if (expiry < now) map.delete(id)
PruneExpired(m, t) == [x \in {y \in DOMAIN m : ~(m[y] < t)} |-> m[x]]

VARIABLES
  now,            \* Date.now(), ms
  mqStatus,       \* MQTTManager.status
  mqSettings,     \* MQTTManager.currentSettings (Nothing = null)
  mqRetry,        \* MQTTManager.retryCount
  mqTimer,        \* MQTTManager.reconnectTimer is pending
  mqClient,       \* MQTTManager.client: "null", or the socket state of the client
  mqSub,          \* a subscribe() callback of the current client is outstanding
  mgrSeen,        \* MQTTManager.seenPacketIds
  mgrOut,         \* events emitted by the last onMessage call
  mgrRecv,        \* history: packet id -> time of the last envelope carrying it
  mgrAcc,         \* history: packet id -> time of the last envelope that passed dedup
  mgrLast,        \* history: the envelope mgrOut answers, with mgrRecv and mgrAcc
                  \*   of its packet id as they were before it
  mqDelay,        \* the delay (ms) the pending or last reconnect timer was armed with
  mqTopic,        \* the topic the current client subscribed to (Nothing = none)
  mqPub,          \* the outcome of the last publish() call (Nothing = none yet)
  mqStep,         \* history: the last session handler that ran, its argument and
                  \*   whether it emitted an "error" event
  mqWhy,          \* history: which setError call the status error comes from
  mqLive,         \* the number of clients made by mqtt.connect whose connection has
                  \*   neither closed nor been ended
  mqTimers        \* the number of setTimeout reconnect callbacks still pending

brokerVars == <<mqStatus, mqSettings, mqRetry, mqTimer, mqClient, mqSub,
                mgrSeen, mgrOut, mgrRecv, mgrAcc, mgrLast,
                mqDelay, mqTopic, mqPub, mqStep, mqWhy, mqLive, mqTimers>>

VARIABLES
  deviceRef,        \* deviceRef.current: a device id, 0 = null
  devType,          \* device id -> transport type of the device in use, "none" if free
  subs,             \* devices whose event subscriptions are live (unsubscribesRef)
  pollRef,          \* pollRef.current holds an interval
  watchdogRef,      \* watchdogRef.current holds an interval
  hbRef,            \* bleHeartbeatRef.current holds an interval
  hbLeaked,         \* a heartbeat interval runs that no ref holds any more
  lastData,         \* lastDataReceivedRef.current
  status,           \* state.status
  connType,         \* state.connectionType
  reconnectAttempt, \* reconnectAttemptRef.current
  params,           \* connectionParamsRef.current (Nothing = null)
  isReconnecting,   \* isReconnectingRef.current
  generation,       \* reconnectGenerationRef.current
  procs,            \* async calls suspended at an await
  arLog,            \* history: the entry into attemptReconnect that the latest
                    \*   handler made (the counter it found, whether it went on
                    \*   to sleep), Nothing if it made none
  wakeLog,          \* history: the attempt the latest handler woke from its
                    \*   backoff sleep, Nothing if it woke none
  discLog,          \* history: the latest disconnect() call, once it has
                    \*   completed and until connect() or disconnect() is called
                    \*   again (the generation it found and the one it left)
  evLog,            \* history: the timer or device handler that ran in the
                    \*   latest step (the watchdog with the branch it took, an
                    \*   inbound event with its kind, a heartbeat write that
                    \*   resolved or failed, the GATT listener), else Nothing
  cfgLog            \* history: the configure() call the latest handler made (the
                    \*   device, the caller, whether the device's subscriptions
                    \*   were wired at the call), Nothing if it made none

connState == <<deviceRef, devType, subs, pollRef, watchdogRef, hbRef, hbLeaked,
               lastData, status, connType, reconnectAttempt, params,
               isReconnecting, generation, procs>>

connVars == <<connState, arLog, wakeLog, cfgLog, evLog, discLog>>

VARIABLES
  messages,         \* the message list (state of the hook)
  saved,            \* the messages handed to db.saveMessage, in order
  seenPacketIds,    \* seenPacketIds.current: packet id -> expiry
  nodes,            \* the node map: node id -> MeshNode
  rfHeardNodeIds,   \* rfHeardNodeIds.current
  myNodeNum,        \* myNodeNumRef.current
  rfHist,           \* history: packet id -> arrival times of radio text packets
  mqHist,           \* history: packet id -> arrival times of broker text messages
  radioObserved,    \* history: nodes some radio-path event was about
  rfSig,            \* history: node id -> the signal fields after the latest
                    \*   radio-path event about the node
  mqSince,          \* history: nodes updated from the broker since then
  posLog,           \* history: the coordinates the latest handler validated
  sends,            \* sendMessage calls suspended at an await
  sendLog,          \* history: what the latest sendMessage step did (the route
                    \*   a call took, or the packet id a call resumed with)
  mqttStatusRef     \* the broker status the renderer was last told

sendVars == <<sends, sendLog, mqttStatusRef>>

appVars == <<messages, saved, seenPacketIds, nodes, rfHeardNodeIds, myNodeNum,
             rfHist, mqHist, radioObserved, rfSig, mqSince, posLog, sendVars>>

vars == <<now, brokerVars, connVars, appVars>>

\* ------------------------------------------------------------ the clock
\* Date.now() moves on between handlers, here in steps of half the dedup TTL.
TickMs == DEDUP_TTL_MS \div 2

Tick(step, ticks) ==
  /\ now + step <= ticks * step
  /\ now' = now + step

\* ======================================================================
\* MQTTManager (src/unnamed/part_002)
\* ======================================================================

\* --------------------------------------------------------- dedup window
\* A cleanup that drops every entry, expired or not.
MgrPrunedAll(seen, t) ==
  IF Cardinality(DOMAIN seen) > MgrPruneSize THEN EmptyMap ELSE seen

\* isDuplicate(packetId): the window after the size-triggered cleanup.
MgrPruned(seen, t) ==
  IF Cardinality(DOMAIN seen) > MgrPruneSize THEN PruneExpired(seen, t) ELSE seen

\* isDuplicate(packetId): the value returned.
MgrIsDuplicate(seen, p, t) ==
  LET m == MgrPruned(seen, t) IN MapHas(m, p) /\ m[p] > t

\* isDuplicate(packetId): the window it leaves behind.
MgrSeenAfter(seen, p, t) ==
  LET m == MgrPruned(seen, t) IN
  IF MapHas(m, p) /\ m[p] > t THEN m ELSE MapSet(m, p, t + DEDUP_TTL_MS)

\* ------------------------------------------------------- coordinate check
\* Coordinates are kept as the wire integers latitudeI, longitudeI (1e-7
\* degrees); lat = latitudeI / 1e7, so lat > 90 iff latitudeI > 900000000.
DEG == 10000000

\* An optional value: <<>> when undefined or null, <<v>> when present.
Nothing == <<>>

Some(v) == <<v>>

\* toFixed(4) of x / 1e7, as the number of 1e-4 degrees (round half away).
ToFixed4(x) ==
  IF x >= 0 THEN (x + 500) \div 1000 ELSE -((-x + 500) \div 1000)

\* A broker-side check without the North Pole case.
coordWarningNoPole(latI, lonI) ==
  IF latI = 0 /\ lonI = 0 THEN Some([text |-> "No GPS fix (0, 0)", val |-> 0])
  ELSE IF latI < -90 * DEG \/ latI > 90 * DEG
    THEN Some([text |-> "Latitude out of range", val |-> ToFixed4(latI)])
  ELSE IF lonI < -180 * DEG \/ lonI > 180 * DEG
    THEN Some([text |-> "Longitude out of range", val |-> ToFixed4(lonI)])
  ELSE Nothing

\* coordWarning(lat, lon): null (Nothing), or the warning string.
coordWarning(latI, lonI) ==
  IF latI = 0 /\ lonI = 0 THEN Some([text |-> "No GPS fix (0, 0)", val |-> 0])
  ELSE IF latI < -90 * DEG \/ latI > 90 * DEG
    THEN Some([text |-> "Latitude out of range", val |-> ToFixed4(latI)])
  ELSE IF lonI < -180 * DEG \/ lonI > 180 * DEG
    THEN Some([text |-> "Longitude out of range", val |-> ToFixed4(lonI)])
  ELSE IF latI = 90 * DEG /\ lonI = 0
    THEN Some([text |-> "GPS no fix (reports North Pole)", val |-> 0])
  ELSE Nothing

\* ---------------------------------------------------------- inbound decode
\* emitMinimalNodeUpdate(nodeId)
emitMinimalNodeUpdate(nodeId, t) ==
  [type |-> "nodeUpdate", node_id |-> nodeId, last_heard |-> t, from_mqtt |-> TRUE]

\* A decode that handles texts and nothing else.
handleDecodedTextOnly(nodeId, packetId, data, t) ==
  IF data.portnum = "TEXT_MESSAGE_APP" /\ data.payload # Nothing
    THEN <<[type |-> "message", sender_id |-> nodeId, payload |-> data.payload[1].text,
            channel |-> 0, timestamp |-> t, packetId |-> packetId, from_mqtt |-> TRUE],
           emitMinimalNodeUpdate(nodeId, t)>>
    ELSE <<>>

\* handleDecoded(nodeId, packetId, data): the events emitted, in order.
\* data.payload is Nothing when absent, else <<v>> with v.bad set when the
\* port's schema rejects the bytes.
handleDecoded(nodeId, packetId, data, t) ==
  LET has == data.payload # Nothing
      payload == data.payload[1]
  IN
  IF data.portnum = "NODEINFO_APP" /\ has THEN
    IF payload.bad THEN <<emitMinimalNodeUpdate(nodeId, t)>>
    ELSE <<[type |-> "nodeUpdate", node_id |-> nodeId,
            long_name |-> payload.longName, short_name |-> payload.shortName,
            hw_model |-> payload.hwModel, last_heard |-> t, from_mqtt |-> TRUE]>>
  ELSE IF data.portnum = "POSITION_APP" /\ has THEN
    IF payload.bad THEN <<emitMinimalNodeUpdate(nodeId, t)>>
    ELSE
      LET warning == coordWarning(payload.latitudeI, payload.longitudeI) IN
      IF warning # Nothing THEN
        <<[type |-> "nodeUpdate", node_id |-> nodeId, positionWarning |-> warning,
           last_heard |-> t, from_mqtt |-> TRUE]>>
      ELSE IF payload.latitudeI # 0 \/ payload.longitudeI # 0 THEN
        <<[type |-> "nodeUpdate", node_id |-> nodeId,
           latitude |-> payload.latitudeI, longitude |-> payload.longitudeI,
           altitude |-> payload.altitude, last_heard |-> t, from_mqtt |-> TRUE,
           positionWarning |-> Nothing]>>
      ELSE <<emitMinimalNodeUpdate(nodeId, t)>>
  ELSE IF data.portnum = "TEXT_MESSAGE_APP" /\ has THEN
    \* TextDecoder replaces malformed bytes: it does not throw.
    <<[type |-> "message", sender_id |-> nodeId, payload |-> payload.text,
       channel |-> 0, timestamp |-> t, packetId |-> packetId, from_mqtt |-> TRUE],
      emitMinimalNodeUpdate(nodeId, t)>>
  ELSE <<emitMinimalNodeUpdate(nodeId, t)>>

\* onMessage(payload): does the envelope get past the parse and sender checks?
EnvelopeAdmitted(e) == e.ok /\ e.hasPacket /\ e.from # 0

\* onMessage(payload): is the envelope dropped as a duplicate?
EnvelopeSuppressed(seen, e, t) ==
  EnvelopeAdmitted(e) /\ e.id # 0 /\ MgrIsDuplicate(seen, e.id, t)

\* onMessage(payload): the events emitted, in order.
onMessageEvents(seen, e, t) ==
  IF ~EnvelopeAdmitted(e) THEN <<>>
  ELSE IF EnvelopeSuppressed(seen, e, t) THEN <<>>
  ELSE IF e.payloadCase = "decoded" THEN handleDecoded(e.from, e.id, e.data, t)
  ELSE IF e.payloadCase = "encrypted" THEN
    \* tryDecrypt returned null, or fromBinary(DataSchema, ..) threw
    IF e.decrypt # "ok" THEN <<emitMinimalNodeUpdate(e.from, t)>>
    ELSE handleDecoded(e.from, e.id, e.data, t)
  ELSE <<>>

\* onMessage(payload): the dedup window it leaves behind.
onMessageSeen(seen, e, t) ==
  IF EnvelopeAdmitted(e) /\ e.id # 0 THEN MgrSeenAfter(seen, e.id, t) ELSE seen

\* ------------------------------------------------------ envelopes received
UserPayloads ==
  {[bad |-> TRUE],
   [bad |-> FALSE, longName |-> "Alpha", shortName |-> "A", hwModel |-> "43"]}

PositionPayloads ==
  {[bad |-> TRUE],
   [bad |-> FALSE, latitudeI |-> 0, longitudeI |-> 0, altitude |-> Nothing],
   [bad |-> FALSE, latitudeI |-> 395000000, longitudeI |-> -1049000000,
    altitude |-> Some(1600)],
   [bad |-> FALSE, latitudeI |-> 910000000, longitudeI |-> 0, altitude |-> Nothing]}

Texts == {"hi", "yo"}

TextPayloads == {[bad |-> FALSE, text |-> x] : x \in Texts}

\* The Data messages an envelope can carry.
DataValues ==
  {[portnum |-> "NODEINFO_APP", payload |-> Some(u)] : u \in UserPayloads}
  \cup {[portnum |-> "POSITION_APP", payload |-> Some(q)] : q \in PositionPayloads}
  \cup {[portnum |-> "TEXT_MESSAGE_APP", payload |-> Some(x)] : x \in TextPayloads}
  \cup {[portnum |-> "TEXT_MESSAGE_APP", payload |-> Nothing],
        [portnum |-> "OTHER", payload |-> Nothing]}

NoData == [portnum |-> "OTHER", payload |-> Nothing]

\* The broker messages the model receives: bytes that are no envelope, an
\* envelope without a packet, and packets with a decoded, an encrypted or
\* no payload variant.
Envelopes ==
  {[ok |-> FALSE, hasPacket |-> FALSE, from |-> 0, id |-> 0,
    payloadCase |-> "none", decrypt |-> "ok", data |-> NoData],
   [ok |-> TRUE, hasPacket |-> FALSE, from |-> 0, id |-> 0,
    payloadCase |-> "none", decrypt |-> "ok", data |-> NoData]}
  \cup {[ok |-> TRUE, hasPacket |-> TRUE, from |-> f, id |-> i,
         payloadCase |-> "none", decrypt |-> "ok", data |-> NoData]
          : f \in NodeIds, i \in PacketIds}
  \cup {[ok |-> TRUE, hasPacket |-> TRUE, from |-> f, id |-> i,
         payloadCase |-> c, decrypt |-> "ok", data |-> d]
          : f \in NodeIds, i \in PacketIds, c \in {"decoded", "encrypted"},
            d \in DataValues}
  \cup {[ok |-> TRUE, hasPacket |-> TRUE, from |-> f, id |-> i,
         payloadCase |-> "encrypted", decrypt |-> x, data |-> NoData]
          : f \in NodeIds, i \in PacketIds, x \in {"null", "garbage"}}

\* -------------------------------------------------------- broker session
DEFAULT_MAX_RETRIES == 5

\* The settings connect() is called with (the fields the model reads).
\* Strings the code takes apart or puts together are sequences of characters.
DefaultPrefix == <<"m", "s", "h">>

Prefixes ==
  {<<>>, DefaultPrefix, DefaultPrefix \o <<"/">>, DefaultPrefix \o <<"/", "/">>}

\* The largest retry budget the settings of the model configure: one more
\* than the number of retries at which the backoff reaches its cap.
MaxConfiguredRetries == 6

SettingsChoices ==
  {[maxRetries |-> m, topicPrefix |-> x]
     : m \in {Nothing, Some(0), Some(1), Some(MaxConfiguredRetries)}, x \in Prefixes}

\* this.currentSettings.maxRetries ?? 5
MaxRetriesOf(settings) ==
  IF settings.maxRetries = Nothing THEN DEFAULT_MAX_RETRIES ELSE settings.maxRetries[1]

mgrDedupVars == <<mgrSeen, mgrOut, mgrRecv, mgrAcc, mgrLast>>

\* The history entry of a session handler.
Step(op, arg, emitted) == [op |-> op, arg |-> arg, emitted |-> emitted]

\* const prefix = topicPrefix.endsWith("/") ? topicPrefix : `${topicPrefix}/`
EndsWithSlash(x) == Len(x) > 0 /\ x[Len(x)] = "/"

NormalizedPrefix(x) == IF EndsWithSlash(x) THEN x ELSE x \o <<"/">>

\* const topic = `${prefix}#`
SubscribeTopic(settings) == NormalizedPrefix(settings.topicPrefix) \o <<"#">>

\* A backoff without the cap.
MqttBackoffUncapped(retry) == 2000 * Pow2(retry - 1)

\* Math.min(2000 * Math.pow(2, this.retryCount - 1), 60_000)
MqttBackoff(retry) == Min(2000 * Pow2(retry - 1), 60000)

\* A budget test that allows one retry more.
RetriesExhaustedLate(retry, settings) == retry > MaxRetriesOf(settings)

\* this.retryCount >= maxRetries
RetriesExhausted(retry, settings) == retry >= MaxRetriesOf(settings)

\* The error codes of the model: the four the handler names, one other
\* code, and an error without a code (a refused login).
ErrCodes == {"ECONNRESET", "ECONNREFUSED", "ETIMEDOUT", "ENOTFOUND", "EACCES", "none"}

\* A test that forgets the name-not-found code.
isTransientThree(code) == code \in {"ECONNRESET", "ECONNREFUSED", "ETIMEDOUT"}

\* const isTransient = err.code === "ECONNRESET" || ... || err.code === "ENOTFOUND"
isTransient(code) == code \in {"ECONNRESET", "ECONNREFUSED", "ETIMEDOUT", "ENOTFOUND"}

\* if (this.client) { removeAllListeners(); end(true) }: the live clients left.
AfterEnd(live, client) ==
  IF client \in {"opening", "connected"} THEN live - 1 ELSE live

\* if (this.reconnectTimer) clearTimeout(this.reconnectTimer): the pending
\* timeouts left.
AfterClear(timers, held) == IF held THEN timers - 1 ELSE timers

\* A connect(settings) that opens the new client without disconnect() first.
MqttConnectOnly(settings) ==
  /\ mqSettings' = Some(settings)
  /\ mqTimer' = mqTimer
  /\ mqLive' = mqLive + 1
  /\ mqTimers' = mqTimers
  /\ mqRetry' = 0
  /\ mqStatus' = "connecting"
  /\ mqClient' = "opening"
  /\ mqSub' = FALSE
  /\ mqTopic' = Nothing
  /\ mqStep' = Step("connect", "", FALSE)
  /\ mqWhy' = "none"
  /\ UNCHANGED <<now, mgrDedupVars, mqDelay, mqPub>>

\* connect(settings): disconnect(), then a fresh client in _doConnect.
MqttConnect(settings) ==
  /\ mqSettings' = Some(settings)
  /\ mqTimer' = FALSE
  /\ mqLive' = AfterEnd(mqLive, mqClient) + 1
  /\ mqTimers' = AfterClear(mqTimers, mqTimer)
  /\ mqRetry' = 0
  /\ mqStatus' = "connecting"
  /\ mqClient' = "opening"
  /\ mqSub' = FALSE
  /\ mqTopic' = Nothing
  /\ mqStep' = Step("connect", "", FALSE)
  /\ mqWhy' = "none"
  /\ UNCHANGED <<now, mgrDedupVars, mqDelay, mqPub>>

\* A disconnect() that drops the client without ending it: its listeners
\* stay registered and its connection stays open.
MqttDisconnectNoEnd ==
  /\ mqTimer' = FALSE
  /\ mqLive' = mqLive
  /\ mqTimers' = AfterClear(mqTimers, mqTimer)
  /\ mqSettings' = Nothing
  /\ mqRetry' = 0
  /\ mqClient' = mqClient
  /\ mqSub' = FALSE
  /\ mqStatus' = "disconnected"
  /\ mqTopic' = Nothing
  /\ mqStep' = Step("disconnect", "", FALSE)
  /\ mqWhy' = "none"
  /\ UNCHANGED <<now, mgrDedupVars, mqDelay, mqPub>>

\* disconnect()
MqttDisconnect ==
  /\ mqTimer' = FALSE
  /\ mqLive' = AfterEnd(mqLive, mqClient)
  /\ mqTimers' = AfterClear(mqTimers, mqTimer)
  /\ mqSettings' = Nothing
  /\ mqRetry' = 0
  /\ mqClient' = "null"
  /\ mqSub' = FALSE
  /\ mqStatus' = "disconnected"
  /\ mqTopic' = Nothing
  /\ mqStep' = Step("disconnect", "", FALSE)
  /\ mqWhy' = "none"
  /\ UNCHANGED <<now, mgrDedupVars, mqDelay, mqPub>>

\* client.on("connect"): status connected, then subscribe(topic, callback).
MqttOnConnect ==
  /\ mqClient = "opening"
  /\ mqClient' = "connected"
  /\ mqStatus' = "connected"
  /\ mqSub' = TRUE
  /\ mqTopic' = Some(SubscribeTopic(mqSettings[1]))
  /\ mqStep' = Step("onConnect", "", FALSE)
  /\ mqWhy' = "none"
  /\ UNCHANGED <<now, mqSettings, mqRetry, mqTimer, mgrDedupVars, mqDelay, mqPub,
                 mqLive, mqTimers>>

\* The subscribe callback: granted, interrupted by a closing connection
\* ("connection closed" / "connection reset"), or refused.
MqttOnSubscribed ==
  /\ mqSub
  /\ mqSub' = FALSE
  /\ \E outcome \in {"ok", "cascade", "failed"} :
       /\ outcome = "ok" => mqClient = "connected"
       /\ mqRetry' = IF outcome = "ok" THEN 0 ELSE mqRetry
       /\ mqStatus' = IF outcome = "failed" THEN "error" ELSE mqStatus
       /\ mqWhy' = IF outcome = "failed" THEN "subscribe" ELSE mqWhy
       /\ mqStep' = Step("subscribed", outcome, outcome = "failed")
  /\ UNCHANGED <<now, mqSettings, mqTimer, mqClient, mgrDedupVars, mqDelay, mqTopic, mqPub,
                 mqLive, mqTimers>>

\* client.on("error")
MqttOnError ==
  /\ mqClient \in {"opening", "connected"}
  /\ \E code \in ErrCodes :
       /\ mqStatus' = IF isTransient(code) THEN mqStatus ELSE "error"
       /\ mqWhy' = IF isTransient(code) THEN mqWhy ELSE "fatal"
       /\ mqStep' = Step("error", code, ~isTransient(code))
  /\ UNCHANGED <<now, mqSettings, mqRetry, mqTimer, mqClient, mqSub, mgrDedupVars,
                 mqDelay, mqTopic, mqPub, mqLive, mqTimers>>

\* client.on("close"): give up, or count the retry and arm the reconnect timer.
MqttOnClose ==
  /\ mqClient \in {"opening", "connected"}
  /\ mqClient' = "closed"
  /\ mqLive' = mqLive - 1
  /\ IF mqStatus = "disconnected" \/ mqSettings = Nothing
       THEN /\ UNCHANGED <<mqStatus, mqRetry, mqTimer, mqDelay, mqWhy, mqTimers>>
            /\ mqStep' = Step("close", "ignored", FALSE)
     ELSE IF RetriesExhausted(mqRetry, mqSettings[1])
       THEN /\ mqStatus' = "error"
            /\ mqWhy' = "exhausted"
            /\ mqStep' = Step("close", "exhausted", TRUE)
            /\ UNCHANGED <<mqRetry, mqTimer, mqDelay, mqTimers>>
     ELSE /\ mqRetry' = mqRetry + 1
          /\ mqStatus' = "connecting"
          /\ mqWhy' = "none"
          /\ mqTimer' = TRUE
          /\ mqTimers' = mqTimers + 1
          /\ mqDelay' = MqttBackoff(mqRetry + 1)
          /\ mqStep' = Step("close", "retry", FALSE)
  /\ UNCHANGED <<now, mqSettings, mqSub, mgrDedupVars, mqTopic, mqPub>>

\* client.on("offline")
MqttOnOffline ==
  /\ mqClient = "closed"
  /\ mqStatus' = IF mqStatus # "disconnected" THEN "connecting" ELSE mqStatus
  /\ mqWhy' = IF mqStatus # "disconnected" THEN "none" ELSE mqWhy
  /\ mqStep' = Step("offline", "", FALSE)
  /\ UNCHANGED <<now, mqSettings, mqRetry, mqTimer, mqClient, mqSub, mgrDedupVars,
                 mqDelay, mqTopic, mqPub, mqLive, mqTimers>>

\* The reconnect timer fires: _doConnect(currentSettings) unless disconnected.
MqttReconnectTimer ==
  /\ mqTimer
  /\ mqTimer' = FALSE
  /\ mqTimers' = mqTimers - 1
  /\ IF mqStatus # "disconnected" /\ mqSettings # Nothing
       THEN mqClient' = "opening" /\ mqSub' = FALSE /\ mqTopic' = Nothing
            /\ mqLive' = mqLive + 1
       ELSE UNCHANGED <<mqClient, mqSub, mqTopic, mqLive>>
  /\ mqStep' = Step("timer", "", FALSE)
  /\ UNCHANGED <<now, mqSettings, mqRetry, mqStatus, mgrDedupVars, mqDelay, mqPub, mqWhy>>

\* client.on("message"): onMessage(payload) on a connected client.
MqttOnMessage(e) ==
  /\ mqClient = "connected"
  /\ mgrOut' = onMessageEvents(mgrSeen, e, now)
  /\ mgrSeen' = onMessageSeen(mgrSeen, e, now)
  /\ IF EnvelopeAdmitted(e)
       THEN /\ mgrLast' = Some([id |-> e.id, prev |-> mgrRecv[e.id],
                                acc |-> mgrAcc[e.id], env |-> e,
                                dup |-> EnvelopeSuppressed(mgrSeen, e, now)])
            /\ mgrRecv' = [mgrRecv EXCEPT ![e.id] = Some(now)]
            /\ mgrAcc' = IF EnvelopeSuppressed(mgrSeen, e, now) THEN mgrAcc
                         ELSE [mgrAcc EXCEPT ![e.id] = Some(now)]
       ELSE /\ mgrLast' = Nothing
            /\ UNCHANGED <<mgrRecv, mgrAcc>>
  /\ UNCHANGED <<now, mqStatus, mqSettings, mqRetry, mqTimer, mqClient, mqSub,
                 mqDelay, mqTopic, mqPub, mqStep, mqWhy, mqLive, mqTimers>>

\* ------------------------------------------------------------- publish
\* A 32-bit unsigned number, kept as its two 16-bit halves.
U32(hi, lo) == [hi |-> hi, lo |-> lo]

U32Of(n) == U32(n \div 65536, n % 65536)

\* The number of a U32 whose upper half is below 2^15.
IdOf(u) == u.hi * 65536 + u.lo

\* Buffer.alloc(n, 0)
BufferAlloc(n) == [i \in 1 .. n |-> 0]

\* A write that puts the most significant byte first.
writeUInt32BE(buf, u, offset) ==
  [i \in 1 .. Len(buf) |->
     IF i = offset + 1 THEN u.hi \div 256
     ELSE IF i = offset + 2 THEN u.hi % 256
     ELSE IF i = offset + 3 THEN u.lo \div 256
     ELSE IF i = offset + 4 THEN u.lo % 256
     ELSE buf[i]]

\* buf.writeUInt32LE(value, offset)
writeUInt32LE(buf, u, offset) ==
  [i \in 1 .. Len(buf) |->
     IF i = offset + 1 THEN u.lo % 256
     ELSE IF i = offset + 2 THEN u.lo \div 256
     ELSE IF i = offset + 3 THEN u.hi % 256
     ELSE IF i = offset + 4 THEN u.hi \div 256
     ELSE buf[i]]

\* publish(): the nonce.
publishNonce(packetId, from) ==
  writeUInt32LE(writeUInt32LE(BufferAlloc(16), packetId, 0), from, 4)

\* A nonce with the sender before the packet id.
tryDecryptNonceSwapped(packetId, from) ==
  writeUInt32LE(writeUInt32LE(BufferAlloc(16), from, 0), packetId, 4)

\* tryDecrypt(): the nonce.
tryDecryptNonce(packetId, from) ==
  writeUInt32LE(writeUInt32LE(BufferAlloc(16), packetId, 0), from, 4)

RECURSIVE Xor(_, _)
Xor(a, b) ==
  IF a = 0 /\ b = 0 THEN 0
  ELSE (((a % 2) + (b % 2)) % 2) + 2 * Xor(a \div 2, b \div 2)

\* AES-128-CTR with the default key: every byte is xor-ed with a keystream
\* byte that the key, the counter block and the position determine.  The
\* block cipher is not modelled; the keystream here is a stand-in that
\* depends on every byte of the counter block and on the position.
KeystreamByte(nonce, i) ==
  (1 + 13 * i + 7 * nonce[1] + 3 * nonce[2] + 5 * nonce[3] + 11 * nonce[4]
     + 17 * nonce[5] + 19 * nonce[6] + 23 * nonce[7] + 29 * nonce[8]) % 256

AesCtr(bytes, nonce) ==
  [i \in 1 .. Len(bytes) |-> Xor(bytes[i], KeystreamByte(nonce, i))]

\* Texts are sequences of UTF-16 code units.
IsHighSurrogate(c) == c >= 55296 /\ c <= 56319

IsLowSurrogate(c) == c >= 56320 /\ c <= 57343

\* new TextEncoder().encode(text): UTF-8, an unpaired surrogate becomes U+FFFD.
RECURSIVE TextEncode(_)
TextEncode(t) ==
  IF t = <<>> THEN <<>>
  ELSE LET c == Head(t) IN
    IF c < 128 THEN <<c>> \o TextEncode(Tail(t))
    ELSE IF c < 2048 THEN <<192 + (c \div 64), 128 + (c % 64)>> \o TextEncode(Tail(t))
    ELSE IF IsHighSurrogate(c) /\ Len(t) >= 2 /\ IsLowSurrogate(t[2]) THEN
      LET cp == 65536 + (c - 55296) * 1024 + (t[2] - 56320) IN
      <<240 + (cp \div 262144), 128 + ((cp \div 4096) % 64),
        128 + ((cp \div 64) % 64), 128 + (cp % 64)>> \o TextEncode(Tail(Tail(t)))
    ELSE IF IsHighSurrogate(c) \/ IsLowSurrogate(c) THEN
      <<239, 191, 189>> \o TextEncode(Tail(t))
    ELSE <<224 + (c \div 4096), 128 + ((c \div 64) % 64), 128 + (c % 64)>>
           \o TextEncode(Tail(t))

IsContinuation(b) == b >= 128 /\ b <= 191

\* The code units of a UTF-8 byte sequence; a byte that starts no sequence
\* becomes U+FFFD.
RECURSIVE Utf8Units(_)
Utf8Units(b) ==
  IF b = <<>> THEN <<>>
  ELSE LET x == b[1]
           n == Len(b)
       IN
    IF x < 128 THEN <<x>> \o Utf8Units(Tail(b))
    ELSE IF x >= 194 /\ x <= 223 /\ n >= 2 /\ IsContinuation(b[2]) THEN
      <<(x - 192) * 64 + (b[2] - 128)>> \o Utf8Units(SubSeq(b, 3, n))
    ELSE IF x >= 224 /\ x <= 239 /\ n >= 3 /\ IsContinuation(b[2])
            /\ IsContinuation(b[3]) THEN
      <<(x - 224) * 4096 + (b[2] - 128) * 64 + (b[3] - 128)>>
        \o Utf8Units(SubSeq(b, 4, n))
    ELSE IF x >= 240 /\ x <= 244 /\ n >= 4 /\ IsContinuation(b[2])
            /\ IsContinuation(b[3]) /\ IsContinuation(b[4]) THEN
      LET cp == (x - 240) * 262144 + (b[2] - 128) * 4096 + (b[3] - 128) * 64
                  + (b[4] - 128) - 65536
      IN <<55296 + (cp \div 1024), 56320 + (cp % 1024)>> \o Utf8Units(SubSeq(b, 5, n))
    ELSE <<65533>> \o Utf8Units(Tail(b))

\* new TextDecoder().decode(payload): UTF-8, a leading byte order mark is dropped.
TextDecode(b) ==
  LET u == Utf8Units(b) IN
  IF u # <<>> /\ u[1] = 65279 THEN Tail(u) ELSE u

\* toBinary(DataSchema, {portnum: TEXT_MESSAGE_APP, payload}): field 1 as a
\* varint, field 2 length-delimited and left out when empty.
DataToBinary(portnum, payload) ==
  (IF portnum = 0 THEN <<>> ELSE <<8, portnum>>)
    \o (IF payload = <<>> THEN <<>> ELSE <<18, Len(payload)>> \o payload)

\* fromBinary(DataSchema, bytes): ok is FALSE where it throws.
RECURSIVE DataFromBinary(_, _)
DataFromBinary(bytes, acc) ==
  IF bytes = <<>> THEN acc
  ELSE IF bytes[1] = 8 /\ Len(bytes) >= 2 /\ bytes[2] < 128 THEN
    DataFromBinary(SubSeq(bytes, 3, Len(bytes)), [acc EXCEPT !.portnum = bytes[2]])
  ELSE IF bytes[1] = 18 /\ Len(bytes) >= 2 /\ bytes[2] < 128
          /\ Len(bytes) >= 2 + bytes[2] THEN
    DataFromBinary(SubSeq(bytes, 3 + bytes[2], Len(bytes)),
                   [acc EXCEPT !.payload = SubSeq(bytes, 3, 2 + bytes[2])])
  ELSE [acc EXCEPT !.ok = FALSE]

\* PortNum.TEXT_MESSAGE_APP
TEXT_MESSAGE_APP == 1

HexDigits == <<"0", "1", "2", "3", "4", "5", "6", "7", "8", "9",
               "a", "b", "c", "d", "e", "f">>

\* n.toString(16) for n < 2^16
RECURSIVE HexOf(_)
HexOf(n) ==
  IF n < 16 THEN <<HexDigits[n + 1]>>
  ELSE HexOf(n \div 16) \o <<HexDigits[(n % 16) + 1]>>

\* s.padStart(n, c)
RECURSIVE PadStart(_, _, _)
PadStart(x, n, c) == IF Len(x) >= n THEN x ELSE PadStart(<<c>> \o x, n, c)

\* from.toString(16)
ToString16(u) ==
  IF u.hi = 0 THEN HexOf(u.lo) ELSE HexOf(u.hi) \o PadStart(HexOf(u.lo), 4, "0")

\* `!${from.toString(16).padStart(8, "0")}`
GatewayId(from) == <<"!">> \o PadStart(ToString16(from), 8, "0")

\* `${prefix}2/e/${channelName}/${gatewayId}`
PublishTopic(settings, channelName, gatewayId) ==
  NormalizedPrefix(settings.topicPrefix) \o <<"2", "/", "e", "/">> \o channelName
    \o <<"/">> \o gatewayId

\* The outcome of a publish() call: what it threw or returned, what it
\* handed to client.publish, and (history) its arguments, the settings and
\* the nonce it used, and whether the envelope has been fed back.
PublishOutcome(threw, sent, ret, text, from, channelName, nonce, settings) ==
  [threw |-> threw, sent |-> sent, ret |-> ret, text |-> text, from |-> from,
   channelName |-> channelName, nonce |-> nonce, settings |-> settings,
   fed |-> FALSE]

\* publish(text, from, channel, destination, channelName); random is the
\* value of (Math.random() * 0xFFFFFFFF) >>> 0.
MqttPublish(text, from, channel, destination, channelName, random) ==
  /\ IF mqClient # "connected" \/ mqSettings = Nothing
       THEN mqPub' = Some(PublishOutcome(TRUE, <<>>, Nothing, text, from, channelName,
                                        Nothing, mqSettings))
       ELSE
         LET packetId == random
             dataBytes == DataToBinary(TEXT_MESSAGE_APP, TextEncode(text))
             nonce == publishNonce(packetId, from)
             encrypted == AesCtr(dataBytes, nonce)
             packet == [from |-> from, to |-> destination, id |-> packetId,
                        channel |-> channel, hopLimit |-> 3,
                        payloadCase |-> "encrypted", value |-> encrypted]
             gatewayId == GatewayId(from)
             envelope == [packet |-> packet, channelId |-> channelName,
                          gatewayId |-> gatewayId]
         IN mqPub' = Some(PublishOutcome(
                            FALSE,
                            <<[topic |-> PublishTopic(mqSettings[1], channelName, gatewayId),
                               envelope |-> envelope]>>,
                            Some(packetId), text, from, channelName, Some(nonce),
                            mqSettings))
  /\ UNCHANGED <<now, mqStatus, mqSettings, mqRetry, mqTimer, mqClient, mqSub,
                 mgrDedupVars, mqDelay, mqTopic, mqStep, mqWhy, mqLive, mqTimers>>

\* tryDecrypt(encrypted, packetId, from)
tryDecrypt(encrypted, packetId, from) == AesCtr(encrypted, tryDecryptNonce(packetId, from))

\* onMessage(payload) for the bytes of a published envelope: the parse of
\* the envelope, the decryption and the parse of the Data message and of
\* its text.
InboundOf(envelope) ==
  LET packet == envelope.packet
      data == DataFromBinary(tryDecrypt(packet.value, packet.id, packet.from),
                             [ok |-> TRUE, portnum |-> 0, payload |-> <<>>])
  IN [ok |-> TRUE, hasPacket |-> TRUE, from |-> IdOf(packet.from),
      id |-> IdOf(packet.id), payloadCase |-> packet.payloadCase,
      decrypt |-> IF data.ok THEN "ok" ELSE "garbage",
      data |-> IF ~data.ok THEN NoData
               ELSE IF data.portnum = TEXT_MESSAGE_APP
                 THEN [portnum |-> "TEXT_MESSAGE_APP",
                       payload |-> Some([bad |-> FALSE, text |-> TextDecode(data.payload)])]
               ELSE NoData]

\* The broker hands the envelope of the last publish() back to this bridge.
MqttLoopback ==
  /\ mqPub # Nothing
  /\ mqPub[1].sent # <<>>
  /\ mqPub[1].from.hi = 0 /\ mqPub[1].from.lo \in NodeIds
  /\ mqPub[1].ret[1].hi = 0 /\ mqPub[1].ret[1].lo \in PacketIds
  /\ LET e == InboundOf(mqPub[1].sent[1].envelope) IN
     /\ mqClient = "connected"
     /\ mgrOut' = onMessageEvents(mgrSeen, e, now)
     /\ mgrSeen' = onMessageSeen(mgrSeen, e, now)
     /\ IF EnvelopeAdmitted(e)
          THEN /\ mgrLast' = Some([id |-> e.id, prev |-> mgrRecv[e.id],
                                   acc |-> mgrAcc[e.id], env |-> e,
                                   dup |-> EnvelopeSuppressed(mgrSeen, e, now)])
               /\ mgrRecv' = [mgrRecv EXCEPT ![e.id] = Some(now)]
               /\ mgrAcc' = IF EnvelopeSuppressed(mgrSeen, e, now) THEN mgrAcc
                            ELSE [mgrAcc EXCEPT ![e.id] = Some(now)]
          ELSE /\ mgrLast' = Nothing
               /\ UNCHANGED <<mgrRecv, mgrAcc>>
  /\ mqPub' = Some([mqPub[1] EXCEPT !.fed = TRUE])
  /\ UNCHANGED <<now, mqStatus, mqSettings, mqRetry, mqTimer, mqClient, mqSub,
                 mqDelay, mqTopic, mqStep, mqWhy, mqLive, mqTimers>>

BrokerInit ==
  /\ mqStatus = "disconnected"
  /\ mqSettings = Nothing
  /\ mqRetry = 0
  /\ mqTimer = FALSE
  /\ mqClient = "null"
  /\ mqSub = FALSE
  /\ mgrSeen = EmptyMap
  /\ mgrOut = <<>>
  /\ mgrRecv = [p \in PacketIds |-> Nothing]
  /\ mgrAcc = [p \in PacketIds |-> Nothing]
  /\ mgrLast = Nothing
  /\ mqDelay = 0
  /\ mqTopic = Nothing
  /\ mqPub = Nothing
  /\ mqStep = Step("none", "", FALSE)
  /\ mqWhy = "none"
  /\ mqLive = 0
  /\ mqTimers = 0

\* ======================================================================
\* The radio connection session (src/src/renderer/hooks/useDevice.ts)
\* ======================================================================
MaxDevices == 2
MaxGen == 2
MaxConnTicks == 2
MaxProcs == 2

MAX_RECONNECT_ATTEMPTS == 5
BLE_STALE_THRESHOLD_MS == 90000
BLE_DEAD_THRESHOLD_MS == 180000
HTTP_STALE_THRESHOLD_MS == 60000
HTTP_DEAD_THRESHOLD_MS == 120000
SERIAL_STALE_THRESHOLD_MS == 120000
SERIAL_DEAD_THRESHOLD_MS == 300000
ConnTickMs == 70000

Devices == 1 .. MaxDevices

\* The transports of the model: "ble" has the heartbeat interval, the GATT
\* listener and reconnectBle(); "http" takes the createConnection() path.
ConnTypes == {"ble", "http"}

\* A backoff that is capped too early.
ReconnectDelayCapped16(attempt) == Min(2000 * Pow2(attempt - 1), 16000)

\* Math.min(2000 * Math.pow(2, reconnectAttemptRef.current - 1), 32000)
ReconnectDelay(attempt) == Min(2000 * Pow2(attempt - 1), 32000)

\* Thresholds that ignore the transport.
getThresholdsDefault(ps) == [stale |-> 90000, dead |-> 180000]

\* getThresholds()
getThresholds(ps) ==
  IF ps = Nothing
    THEN [stale |-> 90000, dead |-> 180000]
  ELSE IF ps[1].type = "ble"
    THEN [stale |-> BLE_STALE_THRESHOLD_MS, dead |-> BLE_DEAD_THRESHOLD_MS]
  ELSE IF ps[1].type = "serial"
    THEN [stale |-> SERIAL_STALE_THRESHOLD_MS, dead |-> SERIAL_DEAD_THRESHOLD_MS]
  ELSE IF ps[1].type = "http"
    THEN [stale |-> HTTP_STALE_THRESHOLD_MS, dead |-> HTTP_DEAD_THRESHOLD_MS]
  ELSE [stale |-> 90000, dead |-> 180000]

\* statusMap[status] ?? "connected"
statusMap(code) ==
  IF code \in {1, 3, 4, 6} THEN "connecting"
  ELSE IF code = 2 THEN "disconnected"
  ELSE IF code = 7 THEN "configured"
  ELSE "connected"

\* The device status codes the model's devices emit.
StatusCodes == {2, 5, 7}

\* An async call suspended at an await. k: "connect" (await createConnection
\* in connect), "sleep" (the backoff sleep of attemptReconnect), "acquire"
\* (await reconnectBle / createConnection in attemptReconnect), "disc" (await
\* safeDisconnect in disconnect), "hb" (await heartbeat()). gen: the
\* generation the call captured (attemptReconnect) or set (connect).
Proc(k, type, gen, n, delay, dev) ==
  [k |-> k, type |-> type, gen |-> gen, n |-> n, delay |-> delay, dev |-> dev, tag |-> 0]

\* Two suspended calls with equal fields are kept apart by a tag.
Spawn(ps, r) ==
  LET free == {i \in 0 .. Cardinality(ps) : [r EXCEPT !.tag = i] \notin ps}
      i == CHOOSE x \in free : \A y \in free : x <= y
  IN ps \cup {[r EXCEPT !.tag = i]}

\* Device ids are reused once nothing refers to the device any more.
DevInUse(d, ref, ss, ps) == d = ref \/ d \in ss \/ \E p \in ps : p.dev = d

Gc(dt, ref, ss, ps) ==
  [d \in Devices |-> IF DevInUse(d, ref, ss, ps) THEN dt[d] ELSE "none"]

FreeDevices == {d \in Devices : ~DevInUse(d, deviceRef, subs, procs)}

NewDevice == CHOOSE d \in FreeDevices : \A e \in FreeDevices : d <= e

\* A touch that leaves the status alone.
TouchedStatusKept(s) == s

\* touchLastData(): the status it leaves.
TouchedStatus(s) == IF s = "stale" THEN "configured" ELSE s

\* cleanupSubscriptions(); stopPolling(); stopWatchdog(); stopBleHeartbeat()
Teardown ==
  /\ subs' = {}
  /\ pollRef' = FALSE
  /\ watchdogRef' = FALSE
  /\ hbRef' = FALSE

\* attemptReconnect() up to its first await. ps: the suspended calls without
\* the caller; flag: isReconnectingRef.current on entry.
attemptReconnect(ps, flag) ==
  IF params = Nothing THEN
    /\ isReconnecting' = FALSE
    /\ status' = "disconnected"
    /\ connType' = Nothing
    /\ procs' = ps
    /\ arLog' = Some([before |-> reconnectAttempt, slept |-> FALSE])
    /\ wakeLog' = Nothing
    /\ cfgLog' = Nothing
    /\ UNCHANGED reconnectAttempt
  ELSE IF reconnectAttempt >= MAX_RECONNECT_ATTEMPTS THEN
    /\ isReconnecting' = FALSE
    /\ reconnectAttempt' = 0
    /\ status' = "disconnected"
    /\ connType' = Nothing
    /\ procs' = ps
    /\ arLog' = Some([before |-> reconnectAttempt, slept |-> FALSE])
    /\ wakeLog' = Nothing
    /\ cfgLog' = Nothing
  ELSE
    /\ isReconnecting' = flag
    /\ reconnectAttempt' = reconnectAttempt + 1
    /\ status' = "reconnecting"
    /\ procs' = Spawn(ps, Proc("sleep", params[1].type, generation,
                               reconnectAttempt + 1,
                               ReconnectDelay(reconnectAttempt + 1), 0))
    /\ arLog' = Some([before |-> reconnectAttempt, slept |-> TRUE])
    /\ wakeLog' = Nothing
    /\ cfgLog' = Nothing
    /\ UNCHANGED connType

\* handleConnectionLost(). ps: the suspended calls without the caller.
handleConnectionLost(ps) ==
  IF isReconnecting THEN
    /\ procs' = ps
    /\ devType' = Gc(devType, deviceRef, subs, ps)
    /\ UNCHANGED <<deviceRef, subs, pollRef, watchdogRef, hbRef, hbLeaked, lastData,
                   status, connType, reconnectAttempt, params,
                   isReconnecting, generation>>
    /\ arLog' = Nothing
    /\ wakeLog' = Nothing
    /\ cfgLog' = Nothing
  ELSE
    /\ Teardown
    /\ deviceRef' = 0
    /\ attemptReconnect(ps, TRUE)
    /\ devType' = Gc(devType, 0, {}, procs')
    /\ UNCHANGED <<hbLeaked, lastData, params, generation>>

\* A device set up with configure() called before the subscriptions are wired.
InstallCallsConfigureFirst == <<"configure", "wireSubscriptions">>

\* The calls made on a newly created device, in the order of the source.
InstallCalls == <<"wireSubscriptions", "configure">>

\* wireSubscriptions(device, type), or device.configure(), applied to the
\* subscriptions, the heartbeat interval and the configure() history.
InstallCall(st, call, d, type, by) ==
  IF call = "wireSubscriptions"
    THEN [st EXCEPT !.subs = st.subs \cup {d},
                    !.hbRef = (st.hbRef \/ type = "ble"),
                    !.hbLeaked = (st.hbLeaked \/ (st.hbRef /\ type = "ble"))]
    ELSE [st EXCEPT !.cfg = Some([dev |-> d, by |-> by, wired |-> d \in st.subs])]

\* deviceRef.current = device; wireSubscriptions(device, type); device.configure()
InstallDevice(d, type, ps, by) ==
  LET st0 == [subs |-> subs, hbRef |-> hbRef, hbLeaked |-> hbLeaked, cfg |-> Nothing]
      st1 == InstallCall(st0, InstallCalls[1], d, type, by)
      st2 == InstallCall(st1, InstallCalls[2], d, type, by)
  IN /\ deviceRef' = d
     /\ subs' = st2.subs
     /\ hbRef' = st2.hbRef
     /\ hbLeaked' = st2.hbLeaked
     /\ cfgLog' = st2.cfg
     /\ procs' = ps
     /\ devType' = [Gc(devType, d, st2.subs, ps) EXCEPT ![d] = type]

\* connect(type, httpAddress) up to await createConnection.
ConnectWithin(type, calls) ==
  /\ discLog' = Nothing
  /\ evLog' = Nothing
  /\ generation < calls
  /\ Cardinality(procs) < MaxProcs
  /\ IF deviceRef # 0 THEN Teardown ELSE UNCHANGED <<subs, pollRef, watchdogRef, hbRef>>
  /\ deviceRef' = 0
  /\ params' = Some([type |-> type])
  /\ reconnectAttempt' = 0
  /\ isReconnecting' = FALSE
  /\ generation' = generation + 1
  /\ status' = "connecting"
  /\ connType' = Some(type)
  /\ procs' = Spawn(procs, Proc("connect", type, generation + 1, 0, 0, 0))
  /\ devType' = Gc(devType, 0, subs', procs')
  /\ UNCHANGED <<hbLeaked, lastData>>
  /\ arLog' = Nothing
  /\ wakeLog' = Nothing
  /\ cfgLog' = Nothing

\* connect(type), while fewer than MaxGen connect() and disconnect() calls
\* have been made.
Connect(type) == ConnectWithin(type, MaxGen)

\* connect(): createConnection resolved, or threw.
ConnectResolved(p, ok) ==
  /\ discLog' = discLog
  /\ evLog' = (IF ok THEN Nothing ELSE Some([h |-> "connect", threw |-> TRUE, gen |-> p.gen]))
  /\ p \in procs /\ p.k = "connect"
  /\ IF ok THEN
       /\ FreeDevices # {}
       /\ InstallDevice(NewDevice, p.type, procs \ {p}, "connect")
       /\ UNCHANGED <<pollRef, watchdogRef, lastData, status, connType,
                      reconnectAttempt, params, isReconnecting, generation>>
       /\ arLog' = Nothing
       /\ wakeLog' = Nothing
     ELSE
       /\ Teardown
       /\ deviceRef' = 0
       /\ status' = "disconnected"
       /\ connType' = Nothing
       /\ procs' = procs \ {p}
       /\ devType' = Gc(devType, 0, {}, procs')
       /\ UNCHANGED <<hbLeaked, lastData, reconnectAttempt, params, isReconnecting,
                      generation>>
       /\ arLog' = Nothing
       /\ wakeLog' = Nothing
       /\ cfgLog' = Nothing

\* disconnect() up to await safeDisconnect(device), or to its end when no
\* device is held.
Disconnect ==
  /\ discLog' = (IF deviceRef # 0 THEN Nothing
                 ELSE Some([from |-> generation, gen |-> generation + 1]))
  /\ evLog' = Nothing
  /\ generation < MaxGen
  /\ Cardinality(procs) < MaxProcs
  /\ Teardown
  /\ isReconnecting' = FALSE
  /\ reconnectAttempt' = 0
  /\ generation' = generation + 1
  /\ params' = Nothing
  /\ deviceRef' = 0
  /\ IF deviceRef # 0
       THEN /\ procs' = Spawn(procs, Proc("disc", "none", generation + 1, 0, 0, 0))
            /\ UNCHANGED <<status, connType>>
       ELSE /\ procs' = procs
            /\ status' = "disconnected"
            /\ connType' = Nothing
  /\ devType' = Gc(devType, 0, {}, procs')
  /\ UNCHANGED <<hbLeaked, lastData>>
  /\ arLog' = Nothing
  /\ wakeLog' = Nothing
  /\ cfgLog' = Nothing

\* disconnect(): safeDisconnect returned; setState(disconnected).
DisconnectDone(p) ==
  /\ discLog' = Some([from |-> p.gen - 1, gen |-> generation])
  /\ evLog' = Nothing
  /\ p \in procs /\ p.k = "disc"
  /\ procs' = procs \ {p}
  /\ status' = "disconnected"
  /\ connType' = Nothing
  /\ UNCHANGED <<deviceRef, devType, subs, pollRef, watchdogRef, hbRef, hbLeaked,
                 lastData, reconnectAttempt, params, isReconnecting, generation>>
  /\ arLog' = Nothing
  /\ wakeLog' = Nothing
  /\ cfgLog' = Nothing

\* A wake-up check that looks at the reconnecting flag alone.
AttemptStaleFlagOnly(p) == ~isReconnecting

\* attemptReconnect(): the check after the backoff sleep.
AttemptStale(p) == ~isReconnecting \/ generation # p.gen

\* attemptReconnect(): the backoff sleep is over.
AttemptWake(p) ==
  /\ discLog' = discLog
  /\ evLog' = Nothing
  /\ p \in procs /\ p.k = "sleep"
  /\ procs' = IF AttemptStale(p) THEN procs \ {p}
              ELSE (procs \ {p}) \cup {[p EXCEPT !.k = "acquire"]}
  /\ UNCHANGED <<deviceRef, devType, subs, pollRef, watchdogRef, hbRef, hbLeaked,
                 lastData, status, connType, reconnectAttempt, params,
                 isReconnecting, generation>>
  /\ arLog' = Nothing
  /\ wakeLog' = Some(p)
  /\ cfgLog' = Nothing

\* attemptReconnect(): reconnectBle / createConnection resolved, or threw.
AttemptAcquired(p, ok) ==
  /\ discLog' = discLog
  /\ evLog' = Nothing
  /\ p \in procs /\ p.k = "acquire"
  /\ IF ok THEN
       /\ FreeDevices # {}
       /\ InstallDevice(NewDevice, p.type, procs \ {p}, "attemptReconnect")
       /\ reconnectAttempt' = 0
       /\ isReconnecting' = FALSE
       /\ UNCHANGED <<pollRef, watchdogRef, lastData, status, connType,
                      params, generation>>
       /\ arLog' = Nothing
       /\ wakeLog' = Nothing
     ELSE
       /\ attemptReconnect(procs \ {p}, isReconnecting)
       /\ devType' = Gc(devType, deviceRef, subs, procs')
       /\ UNCHANGED <<deviceRef, subs, pollRef, watchdogRef, hbRef, hbLeaked,
                      lastData, params, generation>>

\* onDeviceStatus of a subscribed device.
DeviceStatus(d, code) ==
  /\ discLog' = discLog
  /\ evLog' = Some([h |-> "event", kind |-> "deviceStatus", code |-> code])
  /\ d \in subs
  /\ lastData' = now
  /\ IF code = 2 THEN
       /\ Teardown
       /\ deviceRef' = 0
       /\ status' = "disconnected"
       /\ connType' = Nothing
       /\ devType' = Gc(devType, 0, {}, procs)
     ELSE
       /\ status' = statusMap(code)
       /\ pollRef' = (pollRef \/ code = 7)
       /\ watchdogRef' = (watchdogRef \/ code = 7)
       /\ UNCHANGED <<deviceRef, devType, subs, hbRef, connType>>
  /\ UNCHANGED <<hbLeaked, reconnectAttempt, params, isReconnecting,
                 generation, procs>>
  /\ arLog' = Nothing
  /\ wakeLog' = Nothing
  /\ cfgLog' = Nothing

\* onMeshHeartbeat of a subscribed device: touchLastData().
OnMeshHeartbeat(d) ==
  /\ discLog' = discLog
  /\ evLog' = Some([h |-> "event", kind |-> "meshHeartbeat"])
  /\ d \in subs
  /\ lastData' = now
  /\ status' = TouchedStatus(status)
  /\ UNCHANGED <<deviceRef, devType, subs, pollRef, watchdogRef, hbRef, hbLeaked,
                 connType, reconnectAttempt, params, isReconnecting,
                 generation, procs>>
  /\ arLog' = Nothing
  /\ wakeLog' = Nothing
  /\ cfgLog' = Nothing

\* The watchdog interval fires.
WatchdogTick ==
  /\ discLog' = discLog
  /\ watchdogRef
  /\ LET elapsed == now - lastData
         th == getThresholds(params)
     IN
     IF isReconnecting THEN UNCHANGED connState /\ arLog' = Nothing /\ wakeLog' = Nothing
                                       /\ cfgLog' = Nothing
                                       /\ evLog' = Some([h |-> "watchdog", call |-> "return"])
     ELSE IF elapsed > th.dead THEN
       /\ handleConnectionLost(procs)
       /\ evLog' = Some([h |-> "watchdog", call |-> "handleConnectionLost"])
     ELSE IF elapsed > th.stale THEN
       /\ evLog' = Some([h |-> "watchdog", call |-> "stale"])
       /\ status' = IF status \in {"configured", "connected"} THEN "stale" ELSE status
       /\ UNCHANGED <<deviceRef, devType, subs, pollRef, watchdogRef, hbRef, hbLeaked,
                      lastData, connType, reconnectAttempt, params,
                      isReconnecting, generation, procs>>
       /\ arLog' = Nothing
       /\ wakeLog' = Nothing
       /\ cfgLog' = Nothing
     ELSE UNCHANGED connState /\ arLog' = Nothing /\ wakeLog' = Nothing
                                       /\ cfgLog' = Nothing
                                       /\ evLog' = Some([h |-> "watchdog", call |-> "none"])

\* A heartbeat interval fires: await deviceRef.current?.heartbeat().
HeartbeatTick ==
  /\ discLog' = discLog
  /\ evLog' = Nothing
  /\ hbRef \/ hbLeaked
  /\ ~\E p \in procs : p.k = "hb"
  /\ Cardinality(procs) < MaxProcs
  /\ IF deviceRef = 0 THEN
       /\ lastData' = now
       /\ status' = TouchedStatus(status)
       /\ UNCHANGED <<procs, devType>>
     ELSE
       /\ procs' = Spawn(procs, Proc("hb", "none", generation, 0, 0, deviceRef))
       /\ devType' = devType
       /\ UNCHANGED <<lastData, status>>
  /\ UNCHANGED <<deviceRef, subs, pollRef, watchdogRef, hbRef, hbLeaked, connType, reconnectAttempt, params, isReconnecting, generation>>
  /\ arLog' = Nothing
  /\ wakeLog' = Nothing
  /\ cfgLog' = Nothing

\* The heartbeat write resolved (touchLastData), or failed (connection lost).
HeartbeatDone(p, ok) ==
  /\ discLog' = discLog
  /\ evLog' = Some([h |-> "heartbeat", ok |-> ok, dev |-> p.dev])
  /\ p \in procs /\ p.k = "hb"
  /\ IF ok THEN
       /\ lastData' = now
       /\ status' = TouchedStatus(status)
       /\ procs' = procs \ {p}
       /\ devType' = Gc(devType, deviceRef, subs, procs')
       /\ UNCHANGED <<deviceRef, subs, pollRef, watchdogRef, hbRef, hbLeaked, connType, reconnectAttempt, params, isReconnecting, generation>>
       /\ arLog' = Nothing
       /\ wakeLog' = Nothing
       /\ cfgLog' = Nothing
     ELSE handleConnectionLost(procs \ {p})

\* The gattserverdisconnected listener of a subscribed BLE device.
GattDisconnected(d) ==
  /\ discLog' = discLog
  /\ evLog' = Some([h |-> "gatt", ok |-> FALSE])
  /\ d \in subs
  /\ devType[d] = "ble"
  /\ handleConnectionLost(procs)

ConnInit ==
  /\ deviceRef = 0
  /\ devType = [d \in Devices |-> "none"]
  /\ subs = {}
  /\ pollRef = FALSE
  /\ watchdogRef = FALSE
  /\ hbRef = FALSE
  /\ hbLeaked = FALSE
  /\ lastData = 0
  /\ status = "disconnected"
  /\ connType = Nothing
  /\ reconnectAttempt = 0
  /\ params = Nothing
  /\ isReconnecting = FALSE
  /\ generation = 0
  /\ procs = {}
  /\ arLog = Nothing
  /\ wakeLog = Nothing
  /\ cfgLog = Nothing
  /\ evLog = Nothing
  /\ discLog = Nothing

\* ======================================================================
\* The application layer of the renderer: messages, nodes, dedup
\* (src/src/renderer/hooks/useDevice.ts)
\* ======================================================================
MaxMessages == 3

\* isDuplicate(packetId): the answer.
RfIsDuplicate(seen, p, t) == MapHas(seen, p) /\ seen[p] > t

\* isDuplicate(packetId): seenPacketIds afterwards. The entry is written
\* first, expired entries are deleted when the map outgrew its limit.
RfSeenAfter(seen, p, t) ==
  IF RfIsDuplicate(seen, p, t) THEN seen
  ELSE LET set == MapSet(seen, p, t + DEDUP_TTL_MS)
       IN IF Cardinality(DOMAIN set) > RfPruneSize THEN PruneExpired(set, t) ELSE set

\* A validator that accepts a latitude of exactly 90 whatever the longitude.
validateCoordsNoPole(latI, lonI) ==
  IF latI = 0 /\ lonI = 0
    THEN [valid |-> FALSE, warning |-> Some([text |-> "No GPS fix (0, 0)", val |-> 0])]
  ELSE IF latI < -90 * DEG \/ latI > 90 * DEG
    THEN [valid |-> FALSE,
          warning |-> Some([text |-> "Latitude out of range", val |-> ToFixed4(latI)])]
  ELSE IF lonI < -180 * DEG \/ lonI > 180 * DEG
    THEN [valid |-> FALSE,
          warning |-> Some([text |-> "Longitude out of range", val |-> ToFixed4(lonI)])]
  ELSE [valid |-> TRUE, warning |-> Nothing]

\* validateCoords(lat, lon), on the 1e-7 degree integers.
validateCoords(latI, lonI) ==
  IF latI = 0 /\ lonI = 0
    THEN [valid |-> FALSE, warning |-> Some([text |-> "No GPS fix (0, 0)", val |-> 0])]
  ELSE IF latI < -90 * DEG \/ latI > 90 * DEG
    THEN [valid |-> FALSE,
          warning |-> Some([text |-> "Latitude out of range", val |-> ToFixed4(latI)])]
  ELSE IF lonI < -180 * DEG \/ lonI > 180 * DEG
    THEN [valid |-> FALSE,
          warning |-> Some([text |-> "Longitude out of range", val |-> ToFixed4(lonI)])]
  ELSE IF latI = 90 * DEG /\ lonI = 0
    THEN [valid |-> FALSE,
          warning |-> Some([text |-> "GPS no fix (reports North Pole)", val |-> 0])]
  ELSE [valid |-> TRUE, warning |-> Nothing]

\* emptyNode(nodeId). A field the object lacks reads as undefined (Nothing).
\* Of MeshNode the model keeps the fields below; role, via_mqtt, voltage,
\* channel_utilization and air_util_tx are copied like battery.
emptyNode(nodeId) ==
  [node_id |-> nodeId, short_name |-> "", long_name |-> "", hw_model |-> "",
   snr |-> 0, battery |-> 0, last_heard |-> 0, latitude |-> 0, longitude |-> 0,
   altitude |-> Nothing, rssi |-> Nothing, hops_away |-> Nothing,
   heard_via_mqtt_only |-> Nothing, source |-> Nothing,
   lastPositionWarning |-> Nothing]

NodeFields == DOMAIN emptyNode(0)

\* A lookup that always starts from a blank node.
NodeOrBlank(ns, n) == emptyNode(n)

\* prev.get(id) || emptyNode(id)
NodeOr(ns, n) == IF MapHas(ns, n) THEN ns[n] ELSE emptyNode(n)

\* a ?? b
Coalesce(a, b) == IF a = Nothing THEN b ELSE a[1]

\* A spread that starts from a blank node instead of the stored one.
SpreadBlank(existing, u) ==
  [f \in NodeFields |-> IF f \in DOMAIN u THEN u[f] ELSE emptyNode(existing.node_id)[f]]

\* { ...existing, ...u }: the keys of u win, the other fields stay.
Spread(existing, u) ==
  [f \in NodeFields |-> IF f \in DOMAIN u THEN u[f] ELSE existing[f]]

\* mqtt.onNodeUpdate: the node stored for update u (u.node_id # 0).
mqttNodeOf(ns, heard, u, t) ==
  LET n == u.node_id
      existing == NodeOr(ns, n)
      heardViaRF == n \in heard
      spread == [Spread(existing, u) EXCEPT
                   !.heard_via_mqtt_only = Some(~heardViaRF),
                   !.source = Some(IF heardViaRF THEN "rf" ELSE "mqtt"),
                   !.last_heard = IF "last_heard" \in DOMAIN u THEN u.last_heard ELSE t]
      metrics == IF heardViaRF THEN spread
                 ELSE [spread EXCEPT !.hops_away = existing.hops_away,
                                     !.snr = existing.snr,
                                     !.rssi = existing.rssi]
      hasCoords == "latitude" \in DOMAIN u \/ "longitude" \in DOMAIN u
      lat == IF "latitude" \in DOMAIN u THEN u.latitude ELSE 0
      lon == IF "longitude" \in DOMAIN u THEN u.longitude ELSE 0
      r == validateCoords(lat, lon)
      placed == IF ~hasCoords THEN metrics
                ELSE IF ~r.valid
                  THEN [metrics EXCEPT !.latitude = existing.latitude,
                                       !.longitude = existing.longitude,
                                       !.lastPositionWarning = r.warning]
                ELSE [metrics EXCEPT !.lastPositionWarning = Nothing]
  IN IF "positionWarning" \in DOMAIN u
       THEN [placed EXCEPT !.lastPositionWarning = u.positionWarning]
       ELSE placed

\* mqtt.onNodeUpdate: the node map afterwards.
mqttOnNodeUpdate(ns, heard, u, t) ==
  IF u.node_id = 0 THEN ns ELSE MapSet(ns, u.node_id, mqttNodeOf(ns, heard, u, t))

\* A ChatMessage. sender_name and to are display data the model leaves out;
\* from_mqtt is FALSE where the object lacks the key, error is Nothing.
ChatMessage(sender, text, ts, id, st, emoji, replyId, fromMqtt) ==
  [sender_id |-> sender, payload |-> text, channel |-> 0, timestamp |-> ts,
   packetId |-> id, status |-> st, emoji |-> emoji, replyId |-> replyId,
   from_mqtt |-> fromMqtt, error |-> Nothing]

\* mqtt.onMessage: the application state afterwards.
mqttOnMessage(st, m, t) ==
  LET msg == ChatMessage(m.sender_id, m.payload, m.timestamp, m.packetId,
                         Nothing, Nothing, Nothing, TRUE)
      SameContent(x) == /\ x.sender_id = msg.sender_id
                        /\ x.timestamp = msg.timestamp
                        /\ x.payload = msg.payload
  IN
  IF m.packetId # 0 /\ RfIsDuplicate(st.seen, m.packetId, t) THEN st
  ELSE [st EXCEPT
          !.messages = IF (\E i \in 1 .. Len(st.messages) : SameContent(st.messages[i])) THEN st.messages
                       ELSE Append(st.messages, msg),
          !.saved = Append(st.saved, msg),
          !.seen = IF m.packetId # 0 THEN RfSeenAfter(st.seen, m.packetId, t)
                   ELSE st.seen]

\* String(n) for the hardware model numbers of the model.
StringOf(n) == IF n = 43 THEN "43" ELSE IF n = 9 THEN "9" ELSE "0"

\* touchLastData() in a subscriber of device d; the session is left alone.
Touch(d) ==
  /\ discLog' = discLog
  /\ evLog' = Some([h |-> "event", kind |-> "packet"])
  /\ d \in subs
  /\ lastData' = now
  /\ status' = TouchedStatus(status)
  /\ UNCHANGED <<deviceRef, devType, subs, pollRef, watchdogRef, hbRef, hbLeaked,
                 connType, reconnectAttempt, params, isReconnecting, generation, procs>>
  /\ arLog' = Nothing
  /\ wakeLog' = Nothing
  /\ cfgLog' = Nothing

\* History: a radio-path event about node n has been handled. rfSig keeps
\* the signal fields the node has after it, and whether a node-info packet
\* has reported the node.
RadioSeen(n, isInfo) ==
  /\ radioObserved' = radioObserved \cup {n}
  /\ IF MapHas(nodes', n)
       THEN /\ rfSig' = [rfSig EXCEPT ![n] =
                  Some([snr |-> nodes'[n].snr, rssi |-> nodes'[n].rssi,
                        hops_away |-> nodes'[n].hops_away,
                        info |-> isInfo \/ (rfSig[n] # Nothing /\ rfSig[n][1].info)])]
            /\ mqSince' = mqSince \ {n}
       ELSE UNCHANGED <<rfSig, mqSince>>

msgVars == <<messages, saved, seenPacketIds, rfHist, mqHist>>

\* onMyNodeInfo
OnMyNodeInfo(d, num) ==
  /\ Touch(d)
  /\ myNodeNum' = num
  /\ nodes' = IF MapHas(nodes, num) THEN nodes ELSE MapSet(nodes, num, emptyNode(num))
  /\ RadioSeen(num, FALSE)
  /\ posLog' = Nothing
  /\ UNCHANGED <<msgVars, rfHeardNodeIds, sendVars>>

\* onUserPacket
OnUserPacket(d, packet) ==
  /\ Touch(d)
  /\ rfHeardNodeIds' = rfHeardNodeIds \cup {packet.from}
  /\ LET existing == NodeOr(nodes, packet.from)
         node == [existing EXCEPT
                    !.node_id = packet.from,
                    !.long_name = Coalesce(packet.longName, existing.long_name),
                    !.short_name = Coalesce(packet.shortName, existing.short_name),
                    !.hw_model = IF packet.hwModel = Nothing THEN existing.hw_model
                                 ELSE StringOf(packet.hwModel[1]),
                    !.last_heard = now,
                    !.heard_via_mqtt_only = Some(FALSE),
                    !.source = Some("rf")]
     IN nodes' = MapSet(nodes, packet.from, node)
  /\ RadioSeen(packet.from, FALSE)
  /\ posLog' = Nothing
  /\ UNCHANGED <<msgVars, myNodeNum, sendVars>>

\* onNodeInfoPacket: the node stored for info (info.num is set and not 0).
nodeInfoNodeOf(ns, info) ==
  LET nodeNum == info.num[1]
      existing == NodeOr(ns, nodeNum)
      pos == info.position
      hasCoords == pos # Nothing /\ (pos[1].latitudeI # Nothing \/ pos[1].longitudeI # Nothing)
      lat == IF hasCoords THEN Coalesce(pos[1].latitudeI, 0) ELSE 0
      lon == IF hasCoords THEN Coalesce(pos[1].longitudeI, 0) ELSE 0
      r == validateCoords(lat, lon)
      infoAlt == IF pos = Nothing \/ pos[1].altitude = Nothing
                   THEN existing.altitude ELSE pos[1].altitude
  IN [existing EXCEPT
        !.node_id = nodeNum,
        !.long_name = IF info.user = Nothing THEN existing.long_name
                      ELSE Coalesce(info.user[1].longName, existing.long_name),
        !.short_name = IF info.user = Nothing THEN existing.short_name
                       ELSE Coalesce(info.user[1].shortName, existing.short_name),
        !.hw_model = IF info.user = Nothing \/ info.user[1].hwModel = Nothing
                       THEN existing.hw_model
                       ELSE StringOf(info.user[1].hwModel[1]),
        !.snr = Coalesce(info.snr, existing.snr),
        !.battery = Coalesce(info.batteryLevel, existing.battery),
        !.last_heard = IF Coalesce(info.lastHeard, 0) > 0
                         THEN info.lastHeard[1] * 1000 ELSE existing.last_heard,
        !.latitude = IF hasCoords /\ r.valid THEN lat ELSE existing.latitude,
        !.longitude = IF hasCoords /\ r.valid THEN lon ELSE existing.longitude,
        !.hops_away = IF info.hopsAway = Nothing THEN existing.hops_away
                      ELSE info.hopsAway,
        !.altitude = infoAlt,
        !.heard_via_mqtt_only = Some(FALSE),
        !.source = Some("rf"),
        !.lastPositionWarning = IF ~hasCoords THEN existing.lastPositionWarning
                                ELSE IF r.valid THEN Nothing ELSE r.warning]

\* onNodeInfoPacket. A packet without num adds undefined to rfHeardNodeIds,
\* a key no lookup asks for.
OnNodeInfoPacket(d, info) ==
  /\ Touch(d)
  /\ rfHeardNodeIds' = IF info.num = Nothing THEN rfHeardNodeIds
                       ELSE rfHeardNodeIds \cup {info.num[1]}
  /\ IF info.num = Nothing \/ info.num[1] = 0
       THEN UNCHANGED <<nodes, radioObserved, rfSig, mqSince>>
       ELSE /\ nodes' = MapSet(nodes, info.num[1], nodeInfoNodeOf(nodes, info))
            /\ RadioSeen(info.num[1], TRUE)
  /\ posLog' = IF info.num = Nothing \/ info.num[1] = 0 \/ info.position = Nothing
                  \/ (info.position[1].latitudeI = Nothing
                      /\ info.position[1].longitudeI = Nothing)
                THEN Nothing
                ELSE Some([path |-> "nodeinfo", node |-> info.num[1],
                           lat |-> Coalesce(info.position[1].latitudeI, 0),
                           lon |-> Coalesce(info.position[1].longitudeI, 0)])
  /\ UNCHANGED <<msgVars, myNodeNum, sendVars>>

\* onPositionPacket
OnPositionPacket(d, packet) ==
  /\ Touch(d)
  /\ LET lat == Coalesce(packet.latitudeI, 0)
         lon == Coalesce(packet.longitudeI, 0)
         r == validateCoords(lat, lon)
         existing == NodeOr(nodes, packet.from)
     IN nodes' = MapSet(nodes, packet.from,
          IF ~r.valid THEN [existing EXCEPT !.lastPositionWarning = r.warning]
          ELSE [existing EXCEPT
                  !.latitude = lat,
                  !.longitude = lon,
                  !.altitude = IF packet.altitude = Nothing THEN existing.altitude
                               ELSE packet.altitude,
                  !.last_heard = now,
                  !.lastPositionWarning = Nothing])
  /\ RadioSeen(packet.from, FALSE)
  /\ posLog' = Some([path |-> "position", node |-> packet.from,
                      lat |-> Coalesce(packet.latitudeI, 0),
                      lon |-> Coalesce(packet.longitudeI, 0)])
  /\ UNCHANGED <<msgVars, myNodeNum, rfHeardNodeIds, sendVars>>

\* onTelemetryPacket. The list of telemetry points is display data the
\* model leaves out.
OnTelemetryPacket(d, packet) ==
  /\ Touch(d)
  /\ nodes' = IF /\ packet.batteryLevel # Nothing
                 /\ packet.batteryLevel[1] # 0
                 /\ packet.from # 0
                 /\ MapHas(nodes, packet.from)
                THEN MapSet(nodes, packet.from,
                            [nodes[packet.from] EXCEPT
                               !.battery = packet.batteryLevel[1],
                               !.last_heard = now])
                ELSE nodes
  /\ RadioSeen(packet.from, FALSE)
  /\ posLog' = Nothing
  /\ UNCHANGED <<msgVars, myNodeNum, rfHeardNodeIds, sendVars>>

\* The onMeshPacket subscriber for text messages: is the packet one?
IsTextPacket(mp) == mp.decoded /\ mp.portnum = "TEXT_MESSAGE_APP"

\* The onMeshPacket subscriber for text messages: the message it builds.
\* pendingReplyIdRef is set by sendMessage only and is undefined here.
textMessageOf(mp, my, t) ==
  ChatMessage(mp.from, mp.text,
              IF mp.rxTime # 0 THEN mp.rxTime * 1000 ELSE t,
              mp.id,
              IF mp.from = my THEN Some("sending") ELSE Nothing,
              IF mp.emoji # 0 THEN Some(mp.emoji) ELSE Nothing,
              IF mp.replyId # 0 THEN Some(mp.replyId) ELSE Nothing,
              FALSE)

\* The onMeshPacket subscriber for text messages: the list afterwards.
textAppended(msgs, msg) ==
  LET SameReaction(x) == /\ x.emoji = msg.emoji
                         /\ x.replyId = msg.replyId
                         /\ x.sender_id = msg.sender_id
  IN IF msg.emoji # Nothing /\ msg.replyId # Nothing /\ (\E i \in 1 .. Len(msgs) : SameReaction(msgs[i]))
       THEN msgs
       ELSE Append(msgs, msg)

\* The onMeshPacket subscriber for SNR/RSSI: the node map afterwards.
signalNodes(ns, mp, t) ==
  IF mp.from # 0 /\ (mp.rxSnr # 0 \/ mp.rxRssi # 0) /\ MapHas(ns, mp.from)
    THEN MapSet(ns, mp.from,
                [ns[mp.from] EXCEPT
                   !.snr = IF mp.rxSnr # 0 THEN mp.rxSnr ELSE @,
                   !.rssi = IF mp.rxRssi # 0 THEN Some(mp.rxRssi) ELSE @,
                   !.last_heard = t])
    ELSE ns

\* onMeshPacket: the text subscriber, then the SNR/RSSI subscriber.
OnMeshPacket(d, mp) ==
  /\ Touch(d)
  /\ Len(saved) < MaxMessages
  /\ IF IsTextPacket(mp)
       THEN LET msg == textMessageOf(mp, myNodeNum, now) IN
            /\ messages' = textAppended(messages, msg)
            /\ saved' = Append(saved, msg)
            /\ rfHist' = [rfHist EXCEPT ![mp.id] = Append(@, now)]
       ELSE UNCHANGED <<messages, saved, rfHist>>
  /\ nodes' = signalNodes(nodes, mp, now)
  /\ RadioSeen(mp.from, FALSE)
  /\ posLog' = Nothing
  /\ UNCHANGED <<seenPacketIds, mqHist, myNodeNum, rfHeardNodeIds, sendVars>>

\* One event of the bridge reaches its listener in the renderer.
ApplyEvent(st, ev, heard, t) ==
  IF ev.type = "message" THEN mqttOnMessage(st, ev, t)
  ELSE [st EXCEPT !.nodes = mqttOnNodeUpdate(st.nodes, heard, ev, t)]

RECURSIVE ApplyEvents(_, _, _, _)
ApplyEvents(st, evs, heard, t) ==
  IF evs = <<>> THEN st
  ELSE ApplyEvents(ApplyEvent(st, Head(evs), heard, t), Tail(evs), heard, t)

RECURSIVE MqHistAfter(_, _, _)
MqHistAfter(h, evs, t) ==
  IF evs = <<>> THEN h
  ELSE MqHistAfter(IF Head(evs).type = "message"
                     THEN [h EXCEPT ![Head(evs).packetId] = Append(@, t)]
                     ELSE h,
                   Tail(evs), t)

\* A broker message is handled by the bridge and the events it emits are
\* handled, in order, by the renderer's mqtt.onMessage / mqtt.onNodeUpdate.
MqttDeliver(e) ==
  /\ MqttOnMessage(e)
  /\ Len(saved) < MaxMessages
  /\ LET evs == onMessageEvents(mgrSeen, e, now)
         st == ApplyEvents([messages |-> messages, saved |-> saved,
                            seen |-> seenPacketIds, nodes |-> nodes],
                           evs, rfHeardNodeIds, now)
     IN /\ messages' = st.messages
        /\ saved' = st.saved
        /\ seenPacketIds' = st.seen
        /\ nodes' = st.nodes
        /\ mqHist' = MqHistAfter(mqHist, evs, now)
        /\ mqSince' = mqSince \cup
             {evs[i].node_id : i \in {j \in 1 .. Len(evs) :
                                        evs[j].type = "nodeUpdate" /\ evs[j].node_id # 0}}
  /\ posLog' = IF EnvelopeAdmitted(e) /\ ~EnvelopeSuppressed(mgrSeen, e, now)
                   /\ e.payloadCase \in {"decoded", "encrypted"}
                   /\ e.data.portnum = "POSITION_APP" /\ e.data.payload # Nothing
                   /\ ~e.data.payload[1].bad
                THEN Some([path |-> "broker", node |-> e.from,
                           lat |-> e.data.payload[1].latitudeI,
                           lon |-> e.data.payload[1].longitudeI])
                ELSE Nothing
  /\ UNCHANGED <<rfHist, myNodeNum, rfHeardNodeIds, radioObserved, rfSig, sendVars>>

\* The broker hands the envelope of the last publish() back over the
\* subscription: the bridge handles it and the renderer handles the events it
\* emits.
MqttEcho ==
  /\ MqttLoopback
  /\ Len(saved) < MaxMessages
  /\ LET evs == mgrOut'
         st == ApplyEvents([messages |-> messages, saved |-> saved,
                            seen |-> seenPacketIds, nodes |-> nodes],
                           evs, rfHeardNodeIds, now)
     IN /\ messages' = st.messages
        /\ saved' = st.saved
        /\ seenPacketIds' = st.seen
        /\ nodes' = st.nodes
        /\ mqHist' = MqHistAfter(mqHist, evs, now)
        /\ mqSince' = mqSince \cup
             {evs[i].node_id : i \in {j \in 1 .. Len(evs) :
                                        evs[j].type = "nodeUpdate" /\ evs[j].node_id # 0}}
  /\ posLog' = Nothing
  /\ UNCHANGED <<rfHist, myNodeNum, rfHeardNodeIds, radioObserved, rfSig, sendVars>>

\* ------------------------------------------------------------ sendMessage
\* A suspended sendMessage call: at sendText (k = "sendText") or at
\* mqtt.publish (k = "publish", with what publish() returned or threw).
SendCall(k, threw, pid, text, from) ==
  [k |-> k, threw |-> threw, pid |-> pid, text |-> text, from |-> from, tag |-> 0]

BROADCAST == U32(65535, 65535)

\* The channel name of the broker send path.
LongFast == <<"L", "o", "n", "g", "F", "a", "s", "t">>

\* A routing that asks for the broker before it looks for a device.
\* (history) the parity of the number of sendMessage calls made so far.
SendParity(log) == IF log = Nothing THEN 0 ELSE log[1].n

SendRouteBrokerFirst(device, brokerStatus) ==
  IF brokerStatus = "connected" THEN "broker"
  ELSE IF device # 0 THEN "radio"
  ELSE "error"

\* sendMessage: the path taken.
SendRoute(device, brokerStatus) ==
  IF device # 0 THEN "radio"
  ELSE IF brokerStatus = "connected" THEN "broker"
  ELSE "error"

\* sendMessage(text) up to its first await, or to the throw. replyId is left
\* undefined, so pendingReplyIdRef stays undefined. virtual is the value of
\* getOrCreateVirtualNodeId(), random the one publish() draws.
SendMessage(text, virtual, random) ==
  /\ Cardinality(sends) < MaxProcs
  /\ LET route == SendRoute(deviceRef, mqttStatusRef) IN
     /\ sendLog' = Some([route |-> route, pid |-> Nothing, n |-> 1 - SendParity(sendLog)])
     /\ IF route = "error" THEN
          UNCHANGED <<now, brokerVars, sends>>
        ELSE IF route = "broker" THEN
          LET from == IF myNodeNum # 0 THEN myNodeNum ELSE virtual IN
          /\ MqttPublish(text, U32Of(from), 0, BROADCAST, LongFast, random)
          /\ sends' = Spawn(sends, SendCall("publish", mqPub'[1].threw, mqPub'[1].ret,
                                            text, from))
        ELSE
          /\ sends' = Spawn(sends, SendCall("sendText", FALSE, Nothing, text, 0))
          /\ UNCHANGED <<now, brokerVars>>
  /\ UNCHANGED <<connVars, messages, saved, seenPacketIds, nodes, rfHeardNodeIds,
                 myNodeNum, rfHist, mqHist, radioObserved, rfSig, mqSince, posLog,
                 mqttStatusRef>>

\* sendMessage: mqtt.publish returned the packet id, or rejected.
SendPublishDone(p) ==
  /\ p \in sends /\ p.k = "publish"
  /\ Len(saved) < MaxMessages
  /\ sends' = sends \ {p}
  /\ IF p.threw THEN
       /\ sendLog' = Some([route |-> "rejected", pid |-> Nothing, n |-> SendParity(sendLog)])
       /\ UNCHANGED <<messages, saved, seenPacketIds>>
     ELSE
       LET packetId == IdOf(p.pid[1])
           msg == ChatMessage(p.from, p.text, now, packetId, Some("acked"),
                              Nothing, Nothing, FALSE)
       IN /\ sendLog' = Some([route |-> "published", pid |-> Some(packetId),
                               n |-> SendParity(sendLog)])
          /\ seenPacketIds' = RfSeenAfter(seenPacketIds, packetId, now)
          /\ messages' = Append(messages, msg)
          /\ saved' = Append(saved, msg)
  /\ UNCHANGED <<now, brokerVars, connVars, nodes, rfHeardNodeIds, myNodeNum, rfHist,
                 mqHist, radioObserved, rfSig, mqSince, posLog, mqttStatusRef>>

\* prev.map((m) => m.packetId === packetId ? { ...m, status: "acked" } : m)
StatusAcked(msgs, packetId) ==
  [i \in 1 .. Len(msgs) |->
     IF msgs[i].packetId = packetId THEN [msgs[i] EXCEPT !.status = Some("acked")]
     ELSE msgs[i]]

\* A status update that marks every message.
StatusFailedAll(msgs, packetId, error) ==
  [i \in 1 .. Len(msgs) |-> [msgs[i] EXCEPT !.status = Some("failed"), !.error = error]]

\* prev.map((m) => m.packetId === packetId ? { ...m, status: "failed", error } : m);
\* packetId is Nothing where the rejection carries none: every message of
\* the model has a packet id, so none matches.
StatusFailed(msgs, packetId, error) ==
  [i \in 1 .. Len(msgs) |->
     IF packetId # Nothing /\ msgs[i].packetId = packetId[1]
       THEN [msgs[i] EXCEPT !.status = Some("failed"), !.error = error]
       ELSE msgs[i]]

\* sendMessage: sendText resolved with the packet id (ok), or rejected with
\* an object that carries a packet id and an error, or neither.
SendTextDone(p, ok, packetId) ==
  /\ p \in sends /\ p.k = "sendText"
  /\ ok => packetId # Nothing
  /\ sends' = sends \ {p}
  /\ sendLog' = Some([route |-> IF ok THEN "acked" ELSE "failed", pid |-> packetId,
                      n |-> SendParity(sendLog)])
  /\ messages' = IF ok THEN StatusAcked(messages, packetId[1])
                 ELSE StatusFailed(messages, packetId, Some("error"))
  /\ UNCHANGED <<now, brokerVars, connVars, saved, seenPacketIds, nodes, rfHeardNodeIds,
                 myNodeNum, rfHist, mqHist, radioObserved, rfSig, mqSince, posLog,
                 mqttStatusRef>>

\* mqtt.onStatus: the renderer is told the bridge's status.
OnMqttStatus ==
  /\ mqttStatusRef # mqStatus
  /\ mqttStatusRef' = mqStatus
  /\ UNCHANGED <<now, brokerVars, connVars, messages, saved, seenPacketIds, nodes,
                 rfHeardNodeIds, myNodeNum, rfHist, mqHist, radioObserved, rfSig, mqSince,
                 posLog, sends, sendLog>>

AppInit ==
  /\ messages = <<>>
  /\ saved = <<>>
  /\ seenPacketIds = EmptyMap
  /\ nodes = EmptyMap
  /\ rfHeardNodeIds = {}
  /\ myNodeNum = 0
  /\ rfHist = [p \in PacketIds |-> <<>>]
  /\ mqHist = [p \in PacketIds |-> <<>>]
  /\ radioObserved = {}
  /\ rfSig = [n \in NodeIds |-> Nothing]
  /\ mqSince = {}
  /\ posLog = Nothing
  /\ sends = {}
  /\ sendLog = Nothing
  /\ mqttStatusRef = "disconnected"


\* ======================================================================
\* The state after construction, and the specifications
\* ======================================================================
Init ==
  /\ now = 0
  /\ BrokerInit
  /\ ConnInit
  /\ AppInit

\* The envelopes of the dedup specification: every way through onMessage up
\* to the dispatch, with a text packet (a message and a node update) and a
\* packet of another port (a node update alone) behind it.
DedupData ==
  {d \in DataValues :
     \/ d.portnum = "OTHER"
     \/ d.portnum = "TEXT_MESSAGE_APP" /\ d.payload = Some([bad |-> FALSE, text |-> "hi"])}

DedupEnvelopes ==
  {e \in Envelopes :
     /\ e.payloadCase = "decoded" => e.data \in DedupData
     /\ e.payloadCase = "encrypted" /\ e.decrypt = "ok" => e.data.portnum = "TEXT_MESSAGE_APP"
     /\ e.payloadCase = "encrypted" => e.data \in DedupData
     /\ e.decrypt # "garbage"
     /\ e.from <= 1}

NextDedup ==
  \/ Tick(TickMs, MaxTicks) /\ UNCHANGED <<brokerVars, connVars, appVars>>
  \/ (\E s \in {[maxRetries |-> Some(1), topicPrefix |-> DefaultPrefix]} : MqttConnect(s)) /\ UNCHANGED <<connVars, appVars>>
  \/ MqttDisconnect /\ UNCHANGED <<connVars, appVars>>
  \/ MqttOnConnect /\ UNCHANGED <<connVars, appVars>>
  \/ MqttOnClose /\ UNCHANGED <<connVars, appVars>>
  \/ MqttReconnectTimer /\ UNCHANGED <<connVars, appVars>>
  \/ (\E e \in DedupEnvelopes : MqttOnMessage(e)) /\ UNCHANGED <<connVars, appVars>>

SpecDedup == Init /\ [][NextDedup]_vars

NextConn ==
  \/ Tick(ConnTickMs, MaxConnTicks) /\ UNCHANGED <<brokerVars, connVars, appVars>>
  \/ (\E type \in ConnTypes : Connect(type)) /\ UNCHANGED <<now, brokerVars, appVars>>
  \/ (\E p \in procs, ok \in BOOLEAN : ConnectResolved(p, ok)) /\ UNCHANGED <<now, brokerVars, appVars>>
  \/ Disconnect /\ UNCHANGED <<now, brokerVars, appVars>>
  \/ (\E p \in procs : DisconnectDone(p)) /\ UNCHANGED <<now, brokerVars, appVars>>
  \/ (\E p \in procs : AttemptWake(p)) /\ UNCHANGED <<now, brokerVars, appVars>>
  \/ (\E p \in procs, ok \in BOOLEAN : AttemptAcquired(p, ok)) /\ UNCHANGED <<now, brokerVars, appVars>>
  \/ (\E d \in Devices, code \in StatusCodes : DeviceStatus(d, code)) /\ UNCHANGED <<now, brokerVars, appVars>>
  \/ (\E d \in Devices : OnMeshHeartbeat(d)) /\ UNCHANGED <<now, brokerVars, appVars>>
  \/ WatchdogTick /\ UNCHANGED <<now, brokerVars, appVars>>
  \/ HeartbeatTick /\ UNCHANGED <<now, brokerVars, appVars>>
  \/ (\E p \in procs, ok \in BOOLEAN : HeartbeatDone(p, ok)) /\ UNCHANGED <<now, brokerVars, appVars>>
  \/ (\E d \in Devices : GattDisconnected(d)) /\ UNCHANGED <<now, brokerVars, appVars>>

SpecConn == Init /\ [][NextConn]_vars

\* --------------------------------------------------------- SpecOverlap
\* Up to MaxConnectCalls calls of connect(), overlapping freely, each one
\* installing its device or throwing, with the Bluetooth heartbeat running.
MaxConnectCalls == 3

NextOverlap ==
  \/ (\E type \in {"ble", "http"} : ConnectWithin(type, MaxConnectCalls))
       /\ UNCHANGED <<now, brokerVars, appVars>>
  \/ (\E p \in procs, ok \in BOOLEAN : ConnectResolved(p, ok)) /\ UNCHANGED <<now, brokerVars, appVars>>
  \/ HeartbeatTick /\ UNCHANGED <<now, brokerVars, appVars>>
  \/ (\E p \in procs : HeartbeatDone(p, TRUE)) /\ UNCHANGED <<now, brokerVars, appVars>>

SpecOverlap == Init /\ [][NextOverlap]_vars

\* ------------------------------------------------------------ SpecDisc
\* One connect(), the session it opens, and disconnect() called at any time
\* after createConnection has settled: no connect() overlaps a disconnect().
NextDisc ==
  \/ Tick(ConnTickMs, MaxConnTicks) /\ UNCHANGED <<brokerVars, connVars, appVars>>
  \/ generation = 0 /\ (\E type \in ConnTypes : Connect(type))
       /\ UNCHANGED <<now, brokerVars, appVars>>
  \/ (\E p \in procs, ok \in BOOLEAN : ConnectResolved(p, ok)) /\ UNCHANGED <<now, brokerVars, appVars>>
  \/ (~\E p \in procs : p.k = "connect") /\ Disconnect /\ UNCHANGED <<now, brokerVars, appVars>>
  \/ (\E p \in procs : DisconnectDone(p)) /\ UNCHANGED <<now, brokerVars, appVars>>
  \/ (\E p \in procs : AttemptWake(p)) /\ UNCHANGED <<now, brokerVars, appVars>>
  \/ (\E p \in procs, ok \in BOOLEAN : AttemptAcquired(p, ok)) /\ UNCHANGED <<now, brokerVars, appVars>>
  \/ (\E d \in Devices, code \in StatusCodes : DeviceStatus(d, code)) /\ UNCHANGED <<now, brokerVars, appVars>>
  \/ (\E d \in Devices : OnMeshHeartbeat(d)) /\ UNCHANGED <<now, brokerVars, appVars>>
  \/ WatchdogTick /\ UNCHANGED <<now, brokerVars, appVars>>
  \/ HeartbeatTick /\ UNCHANGED <<now, brokerVars, appVars>>
  \/ (\E p \in procs, ok \in BOOLEAN : HeartbeatDone(p, ok)) /\ UNCHANGED <<now, brokerVars, appVars>>
  \/ (\E d \in Devices : GattDisconnected(d)) /\ UNCHANGED <<now, brokerVars, appVars>>

SpecDisc == Init /\ [][NextDisc]_vars

\* ------------------------------------------------------------ SpecMsg
\* Text messages on both paths: one sender, one text, no reactions.
MsgMeshPackets ==
  {[from |-> 1, id |-> i, rxTime |-> 0, rxSnr |-> 0, rxRssi |-> 0, decoded |-> TRUE,
    portnum |-> "TEXT_MESSAGE_APP", text |-> "hi", emoji |-> 0, replyId |-> 0]
     : i \in PacketIds}

MsgEnvelopes ==
  {e \in Envelopes :
     /\ e.ok /\ e.hasPacket /\ e.from = 1
     /\ e.payloadCase = "decoded"
     /\ e.data = [portnum |-> "TEXT_MESSAGE_APP",
                  payload |-> Some([bad |-> FALSE, text |-> "hi"])]}

DefaultSettings == [maxRetries |-> Nothing, topicPrefix |-> DefaultPrefix]

NextMsg ==
  \/ Tick(TickMs, MaxTicks) /\ UNCHANGED <<brokerVars, connVars, appVars>>
  \/ generation = 0 /\ Connect("http") /\ UNCHANGED <<now, brokerVars, appVars>>
  \/ (\E p \in procs : ConnectResolved(p, TRUE)) /\ UNCHANGED <<now, brokerVars, appVars>>
  \/ MqttConnect(DefaultSettings) /\ UNCHANGED <<connVars, appVars>>
  \/ MqttOnConnect /\ UNCHANGED <<connVars, appVars>>
  \/ (\E d \in Devices : OnMyNodeInfo(d, 1)) /\ UNCHANGED <<now, brokerVars>>
  \/ (\E d \in Devices, mp \in MsgMeshPackets : OnMeshPacket(d, mp))
       /\ UNCHANGED <<now, brokerVars>>
  \/ (\E e \in MsgEnvelopes : MqttDeliver(e)) /\ UNCHANGED connVars

SpecMsg == Init /\ [][NextMsg]_vars

\* ------------------------------------------------------------ SpecNodes
GoodPosition ==
  [latitudeI |-> Some(395000000), longitudeI |-> Some(-1049000000),
   altitude |-> Some(1600)]

ZeroPosition == [latitudeI |-> Some(0), longitudeI |-> Some(0), altitude |-> Nothing]

RadioNodes == NodeIds \ {0}

NodesUserPackets ==
  {[from |-> n, longName |-> Some("Alpha"), shortName |-> Some("A"),
    hwModel |-> Some(43)] : n \in RadioNodes}

NodesInfoPackets ==
  {[num |-> num, user |-> Nothing, snr |-> snr, position |-> pos,
    batteryLevel |-> Nothing, lastHeard |-> Nothing, hopsAway |-> hops]
     : num \in {Nothing, Some(0)} \cup {Some(n) : n \in RadioNodes},
       snr \in {Nothing, Some(8)},
       pos \in {Nothing},
       hops \in {Nothing, Some(2)}}

NodesPositionPackets ==
  {[from |-> n, latitudeI |-> q.latitudeI, longitudeI |-> q.longitudeI,
    altitude |-> q.altitude] : n \in RadioNodes, q \in {GoodPosition, ZeroPosition}}

NodesTelemetryPackets ==
  {[from |-> n, batteryLevel |-> b] : n \in RadioNodes, b \in {Some(77)}}

NodesMeshPackets ==
  {[from |-> n, id |-> 0, rxTime |-> 0, rxSnr |-> s, rxRssi |-> r, decoded |-> FALSE,
    portnum |-> "OTHER", text |-> "", emoji |-> 0, replyId |-> 0]
     : n \in RadioNodes, s \in {5}, r \in {0, -70}}

NodesEnvelopes ==
  {e \in Envelopes :
     /\ e.ok /\ e.hasPacket /\ e.from \in RadioNodes /\ e.id = 0
     /\ e.payloadCase = "decoded"
     /\ e.data.portnum \in {"NODEINFO_APP", "POSITION_APP"}
     /\ ~e.data.payload[1].bad
     /\ e.data.portnum = "POSITION_APP" => e.data.payload[1].latitudeI <= 395000000}

NextNodes ==
  \/ generation = 0 /\ Connect("http") /\ UNCHANGED <<now, brokerVars, appVars>>
  \/ (\E p \in procs : ConnectResolved(p, TRUE)) /\ UNCHANGED <<now, brokerVars, appVars>>
  \/ MqttConnect(DefaultSettings) /\ UNCHANGED <<connVars, appVars>>
  \/ MqttOnConnect /\ UNCHANGED <<connVars, appVars>>
  \/ (\E d \in Devices, pk \in NodesUserPackets : OnUserPacket(d, pk))
       /\ UNCHANGED <<now, brokerVars>>
  \/ (\E d \in Devices, info \in NodesInfoPackets : OnNodeInfoPacket(d, info))
       /\ UNCHANGED <<now, brokerVars>>
  \/ (\E d \in Devices, pk \in NodesPositionPackets : OnPositionPacket(d, pk))
       /\ UNCHANGED <<now, brokerVars>>
  \/ (\E d \in Devices, pk \in NodesTelemetryPackets : OnTelemetryPacket(d, pk))
       /\ UNCHANGED <<now, brokerVars>>
  \/ (\E d \in Devices, mp \in NodesMeshPackets : OnMeshPacket(d, mp))
       /\ UNCHANGED <<now, brokerVars>>
  \/ (\E e \in NodesEnvelopes : MqttDeliver(e)) /\ UNCHANGED connVars

SpecNodes == Init /\ [][NextNodes]_vars

\* ------------------------------------------------------------ SpecCoords
\* Latitudes and longitudes (1e-7 degrees) at and around the limits of the
\* validators: 0, 39.5 and -104.9, +-90 and +-180, one step beyond, 91, 181.
CoordLats ==
  {-900000001, -900000000, 0, 395000000, 900000000, 900000001, 910000000}

CoordLons ==
  {-1800000001, -1800000000, -1049000000, 0, 1800000000, 1800000001, 1810000000}

\* The pairs tried: every latitude with longitude 0, every longitude with
\* latitude 39.5, and (0, -104.9), (0, 181), (91, 181).
CoordPairs ==
  {<<a, 0>> : a \in CoordLats}
  \cup {<<395000000, b>> : b \in CoordLons}
  \cup {<<0, -1049000000>>, <<0, 1810000000>>, <<910000000, 1810000000>>}

CoordPositions ==
  {[latitudeI |-> Some(c[1]), longitudeI |-> Some(c[2]), altitude |-> Nothing]
     : c \in CoordPairs}
  \cup {[latitudeI |-> Nothing, longitudeI |-> Some(-1049000000), altitude |-> Nothing]}

CoordPositionPackets ==
  {[from |-> n, latitudeI |-> q.latitudeI, longitudeI |-> q.longitudeI,
    altitude |-> q.altitude] : n \in RadioNodes, q \in CoordPositions}

CoordInfoPackets ==
  {[num |-> Some(n), user |-> Nothing, snr |-> Nothing, position |-> pos,
    batteryLevel |-> Nothing, lastHeard |-> Nothing, hopsAway |-> Nothing]
     : n \in RadioNodes, pos \in {Some(q) : q \in CoordPositions}}

CoordEnvelopes ==
  {[ok |-> TRUE, hasPacket |-> TRUE, from |-> n, id |-> 0, payloadCase |-> "decoded",
    decrypt |-> "ok",
    data |-> [portnum |-> "POSITION_APP",
              payload |-> Some([bad |-> FALSE, latitudeI |-> c[1], longitudeI |-> c[2],
                                altitude |-> Nothing])]]
     : n \in RadioNodes, c \in CoordPairs}

\* Positions arrive in radio position packets, radio node-info packets and
\* broker envelopes.
NextCoords ==
  \/ generation = 0 /\ Connect("http") /\ UNCHANGED <<now, brokerVars, appVars>>
  \/ (\E p \in procs : ConnectResolved(p, TRUE)) /\ UNCHANGED <<now, brokerVars, appVars>>
  \/ MqttConnect(DefaultSettings) /\ UNCHANGED <<connVars, appVars>>
  \/ MqttOnConnect /\ UNCHANGED <<connVars, appVars>>
  \/ (\E d \in Devices, pk \in CoordPositionPackets : OnPositionPacket(d, pk))
       /\ UNCHANGED <<now, brokerVars>>
  \/ (\E d \in Devices, info \in CoordInfoPackets : OnNodeInfoPacket(d, info))
       /\ UNCHANGED <<now, brokerVars>>
  \/ (\E e \in CoordEnvelopes : MqttDeliver(e)) /\ UNCHANGED connVars

SpecCoords == Init /\ [][NextCoords]_vars

\* ------------------------------------------------------------ SpecAltitude
\* Radio node-info packets whose position carries an altitude (in metres) or
\* none, with coordinates that pass the check ((39.5, -104.9) and
\* (40, -105)) and that fail it ((0, 0) and a latitude of 91), and with a
\* last-heard time (in seconds) and a signal-to-noise ratio or without.
AltitudePositions ==
  {[latitudeI |-> Some(c[1]), longitudeI |-> Some(c[2]), altitude |-> a]
     : c \in {<<395000000, -1049000000>>, <<400000000, -1050000000>>,
              <<0, 0>>, <<910000000, 0>>},
       a \in {Nothing, Some(1600), Some(1700)}}

AltitudeInfoPackets ==
  {[num |-> Some(n), user |-> Nothing, snr |-> r, position |-> Some(q),
    batteryLevel |-> Nothing, lastHeard |-> h, hopsAway |-> Nothing]
     : n \in RadioNodes, q \in AltitudePositions,
       h \in {Nothing, Some(1), Some(2)}, r \in {Nothing, Some(5)}}

NextAltitude ==
  \/ generation = 0 /\ Connect("http") /\ UNCHANGED <<now, brokerVars, appVars>>
  \/ (\E p \in procs : ConnectResolved(p, TRUE)) /\ UNCHANGED <<now, brokerVars, appVars>>
  \/ (\E d \in Devices, info \in AltitudeInfoPackets : OnNodeInfoPacket(d, info))
       /\ UNCHANGED <<now, brokerVars>>

SpecAltitude == Init /\ [][NextAltitude]_vars

\* ------------------------------------------------------------ SpecWatchdog
\* One connect() over each transport and then the device, its timers and the
\* reconnect loop, on a clock that steps through every threshold.
WatchTypes == {"ble", "serial", "http"}

WatchTickMs == 30000

MaxWatchTicks == 11

NextWatchdog ==
  \/ Tick(WatchTickMs, MaxWatchTicks) /\ UNCHANGED <<brokerVars, connVars, appVars>>
  \/ generation = 0 /\ (\E type \in WatchTypes : Connect(type))
       /\ UNCHANGED <<now, brokerVars, appVars>>
  \/ (\E p \in procs : ConnectResolved(p, TRUE)) /\ UNCHANGED <<now, brokerVars, appVars>>
  \/ (\E p \in procs : AttemptWake(p)) /\ UNCHANGED <<now, brokerVars, appVars>>
  \/ (\E p \in procs, ok \in BOOLEAN : AttemptAcquired(p, ok))
       /\ UNCHANGED <<now, brokerVars, appVars>>
  \/ (\E d \in Devices, code \in StatusCodes : DeviceStatus(d, code))
       /\ UNCHANGED <<now, brokerVars, appVars>>
  \/ (\E d \in Devices : OnMeshHeartbeat(d)) /\ UNCHANGED <<now, brokerVars, appVars>>
  \/ WatchdogTick /\ UNCHANGED <<now, brokerVars, appVars>>
  \/ HeartbeatTick /\ UNCHANGED <<now, brokerVars, appVars>>
  \/ (\E p \in procs, ok \in BOOLEAN : HeartbeatDone(p, ok))
       /\ UNCHANGED <<now, brokerVars, appVars>>
  \/ (\E d \in Devices : GattDisconnected(d)) /\ UNCHANGED <<now, brokerVars, appVars>>

SpecWatchdog == Init /\ [][NextWatchdog]_vars

\* ------------------------------------------------------------ SpecDecode
\* A connected bridge that receives every envelope of the model.
NextDecode ==
  \/ Tick(TickMs, MaxTicks) /\ UNCHANGED <<brokerVars, connVars, appVars>>
  \/ MqttConnect(DefaultSettings) /\ UNCHANGED <<connVars, appVars>>
  \/ MqttOnConnect /\ UNCHANGED <<connVars, appVars>>
  \/ (\E e \in Envelopes : MqttOnMessage(e)) /\ UNCHANGED <<connVars, appVars>>

SpecDecode == Init /\ [][NextDecode]_vars

\* ------------------------------------------------------------ SpecReconn
\* One connect() and then the device and its timers alone: every
\* re-acquisition of the device fails, and neither connect() nor disconnect()
\* is called again.
NextReconn ==
  \/ Tick(ConnTickMs, MaxConnTicks) /\ UNCHANGED <<brokerVars, connVars, appVars>>
  \/ generation = 0 /\ (\E type \in ConnTypes : Connect(type))
       /\ UNCHANGED <<now, brokerVars, appVars>>
  \/ (\E p \in procs : ConnectResolved(p, TRUE)) /\ UNCHANGED <<now, brokerVars, appVars>>
  \/ (\E p \in procs : AttemptWake(p)) /\ UNCHANGED <<now, brokerVars, appVars>>
  \/ (\E p \in procs : AttemptAcquired(p, FALSE)) /\ UNCHANGED <<now, brokerVars, appVars>>
  \/ (\E d \in Devices, code \in StatusCodes : DeviceStatus(d, code)) /\ UNCHANGED <<now, brokerVars, appVars>>
  \/ (\E d \in Devices : OnMeshHeartbeat(d)) /\ UNCHANGED <<now, brokerVars, appVars>>
  \/ WatchdogTick /\ UNCHANGED <<now, brokerVars, appVars>>
  \/ HeartbeatTick /\ UNCHANGED <<now, brokerVars, appVars>>
  \/ (\E p \in procs, ok \in BOOLEAN : HeartbeatDone(p, ok)) /\ UNCHANGED <<now, brokerVars, appVars>>
  \/ (\E d \in Devices : GattDisconnected(d)) /\ UNCHANGED <<now, brokerVars, appVars>>

SpecReconn == Init /\ [][NextReconn]_vars

\* ------------------------------------------------------------ SpecBroker
\* The broker session: connect() and disconnect() at any time, and the
\* events of the broker client.
NextBroker ==
  \/ (\E settings \in SettingsChoices : MqttConnect(settings)) /\ UNCHANGED <<connVars, appVars>>
  \/ MqttDisconnect /\ UNCHANGED <<connVars, appVars>>
  \/ MqttOnConnect /\ UNCHANGED <<connVars, appVars>>
  \/ MqttOnSubscribed /\ UNCHANGED <<connVars, appVars>>
  \/ MqttOnError /\ UNCHANGED <<connVars, appVars>>
  \/ MqttOnClose /\ UNCHANGED <<connVars, appVars>>
  \/ MqttOnOffline /\ UNCHANGED <<connVars, appVars>>
  \/ MqttReconnectTimer /\ UNCHANGED <<connVars, appVars>>

SpecBroker == Init /\ [][NextBroker]_vars

\* The inputs of publish(): texts as UTF-16 code units (empty, "hi", U+00E9,
\* U+20AC, U+1F600 as a surrogate pair, an unpaired surrogate, and "h" after a
\* byte order mark), ids over the whole 32-bit range, one channel name.
PubTexts ==
  {<<>>, <<104, 105>>, <<233>>, <<8364>>, <<55357, 56832>>, <<55296>>, <<65279, 104>>}

PubIds ==
  {U32Of(i) : i \in PacketIds} \cup {U32(43981, 4660), U32(65535, 65535)}

PubFrom ==
  {U32Of(i) : i \in NodeIds} \cup {U32(0, 2), U32(43981, 4660)}

ChannelNames == {<<"L", "F">>}

PublishSettings == {x \in SettingsChoices : x.maxRetries = Nothing}

\* A bridge that publishes under every configured prefix, with senders and
\* packet ids over the whole 32-bit range.
NextPublish ==
  \/ (\E settings \in PublishSettings : MqttConnect(settings)) /\ UNCHANGED <<connVars, appVars>>
  \/ MqttDisconnect /\ UNCHANGED <<connVars, appVars>>
  \/ MqttOnConnect /\ UNCHANGED <<connVars, appVars>>
  \/ (\E from \in PubFrom, channelName \in ChannelNames, random \in PubIds :
        MqttPublish(<<104, 105>>, from, 0, BROADCAST, channelName, random))
       /\ UNCHANGED <<connVars, appVars>>

SpecPublish == Init /\ [][NextPublish]_vars

\* A bridge that publishes every text and is handed its own envelopes back.
NextRoundTrip ==
  \/ MqttConnect(DefaultSettings) /\ UNCHANGED <<connVars, appVars>>
  \/ MqttDisconnect /\ UNCHANGED <<connVars, appVars>>
  \/ MqttOnConnect /\ UNCHANGED <<connVars, appVars>>
  \/ (\E text \in PubTexts, i \in NodeIds, channelName \in ChannelNames, j \in PacketIds :
        MqttPublish(text, U32Of(i), 0, BROADCAST, channelName, U32Of(j)))
       /\ UNCHANGED <<connVars, appVars>>
  \/ MqttLoopback /\ UNCHANGED <<connVars, appVars>>

SpecRoundTrip == Init /\ [][NextRoundTrip]_vars

\* ------------------------------------------------------------ SpecSend
\* Texts sent over a radio that comes and goes and a bridge that comes and
\* goes; the radio carries texts of node 1, which are the operator's own once
\* the radio has reported node 1 as its number.
SendMeshPackets ==
  {[from |-> 1, id |-> i, rxTime |-> 0, rxSnr |-> 0, rxRssi |-> 0, decoded |-> TRUE,
    portnum |-> "TEXT_MESSAGE_APP", text |-> <<104, 105>>, emoji |-> 0, replyId |-> 0]
     : i \in PacketIds}

VirtualNodeId == 2

\* The session holds at most MaxSendMessages messages and MaxSends calls.
MaxSendMessages == 2
MaxSends == 1

NextSend ==
  \/ generation = 0 /\ Connect("http") /\ UNCHANGED <<now, brokerVars, appVars>>
  \/ (\E p \in procs : ConnectResolved(p, TRUE)) /\ UNCHANGED <<now, brokerVars, appVars>>
  \/ Disconnect /\ UNCHANGED <<now, brokerVars, appVars>>
  \/ (\E p \in procs : DisconnectDone(p)) /\ UNCHANGED <<now, brokerVars, appVars>>
  \/ MqttConnect(DefaultSettings) /\ UNCHANGED <<connVars, appVars>>
  \/ MqttOnConnect /\ UNCHANGED <<connVars, appVars>>
  \/ MqttDisconnect /\ UNCHANGED <<connVars, appVars>>
  \/ OnMqttStatus
  \/ (\E d \in Devices : OnMyNodeInfo(d, 1)) /\ UNCHANGED <<now, brokerVars>>
  \/ /\ Len(messages) < MaxSendMessages
     /\ \E d \in Devices, mp \in SendMeshPackets : OnMeshPacket(d, mp)
     /\ UNCHANGED <<now, brokerVars>>
  \/ Cardinality(sends) < MaxSends /\ SendMessage(<<104, 105>>, VirtualNodeId, U32Of(MaxPacketId))
  \/ Len(messages) < MaxSendMessages /\ \E p \in sends : SendPublishDone(p)
  \/ (\E p \in sends, ok \in BOOLEAN, packetId \in {Nothing} \cup {Some(i) : i \in PacketIds} :
        SendTextDone(p, ok, packetId))

SpecSend == Init /\ [][NextSend]_vars

\* ------------------------------------------------------------ SpecEcho
\* Sending without a radio: the broker connects, sendMessage publishes as
\* the virtual node 1 with a packet id of 1 or 2, and the broker echoes the
\* last published envelope at any time, before or after publish() returns
\* to sendMessage.
MaxEchoTicks == 1

NextEcho ==
  \/ Tick(TickMs, MaxEchoTicks) /\ UNCHANGED <<brokerVars, connVars, appVars>>
  \/ MqttConnect(DefaultSettings) /\ UNCHANGED <<connVars, appVars>>
  \/ MqttOnConnect /\ UNCHANGED <<connVars, appVars>>
  \/ OnMqttStatus
  \/ /\ Cardinality(sends) < MaxSends
     /\ \E id \in PacketIds \ {0} : SendMessage(<<104, 105>>, 1, U32Of(id))
  \/ (\E p \in sends : SendPublishDone(p))
  \/ MqttEcho /\ UNCHANGED connVars

SpecEcho == Init /\ [][NextEcho]_vars

\* The same session where no connection stays open for ever and an armed
\* reconnect timer fires.
SpecBrokerLive ==
  /\ Init
  /\ [][NextBroker]_vars
  /\ WF_vars(MqttOnClose /\ UNCHANGED <<connVars, appVars>>)
  /\ WF_vars(MqttReconnectTimer /\ UNCHANGED <<connVars, appVars>>)

\* ======================================================================
\* Properties
\* ======================================================================
\* ------------------------------------------------------------ C1, C3
CountOf(s, p, paths) ==
  Cardinality({i \in 1 .. Len(s) : s[i].packetId = p /\ s[i].from_mqtt \in paths})

\* C1: when the radio delivers text packets with the same packet id within
\* 10 minutes of the first, at most one of them is appended to the message
\* list and at most one is saved.  Stated for the non-zero ids, which no
\* reading of the duplicate check exempts.
C1_RadioSecondSuppressed ==
  \A p \in PacketIds \ {0} :
    (Len(rfHist[p]) >= 2 /\ rfHist[p][Len(rfHist[p])] - rfHist[p][1] < DEDUP_TTL_MS)
      => /\ CountOf(messages, p, {FALSE}) <= 1
         /\ CountOf(saved, p, {FALSE}) <= 1

\* C3: a text message whose packet id arrived once by radio and once from
\* the broker, less than 10 minutes apart and in either order, is in the
\* message list exactly once.
C3_CrossPathOnce ==
  \A p \in PacketIds \ {0} :
    (/\ Len(rfHist[p]) = 1
     /\ Len(mqHist[p]) = 1
     /\ rfHist[p][1] - mqHist[p][1] < DEDUP_TTL_MS
     /\ mqHist[p][1] - rfHist[p][1] < DEDUP_TTL_MS)
      => CountOf(messages, p, BOOLEAN) = 1

C5_BrokerOnlyIffNeverRadio ==
  \A n \in DOMAIN nodes :
    /\ (nodes[n].heard_via_mqtt_only = Some(TRUE)) <=> (n \notin radioObserved)
    /\ n \in radioObserved => nodes[n].source # Some("mqtt")

\* ------------------------------------------------------------ C6 .. C10
Attempts == {p \in procs : p.k \in {"sleep", "acquire"}}

BackoffTable == <<2000, 4000, 8000, 16000, 32000>>

\* C6: the sleep before reconnect attempt n (n = 1..5) is 2000, 4000, 8000,
\* 16000, 32000 ms; attempts are numbered consecutively, the counter never
\* exceeds 5, and an entry into attemptReconnect that finds the counter at 5
\* makes no further attempt, resets the counter to 0 and leaves the status
\* disconnected.
C6_BackoffAndBudget ==
  /\ reconnectAttempt \in 0 .. 5
  /\ \A p \in Attempts : p.n \in 1 .. 5 /\ p.delay = BackoffTable[p.n]
  /\ arLog # Nothing =>
       IF arLog[1].before >= 5
         THEN ~arLog[1].slept /\ reconnectAttempt = 0 /\ status = "disconnected"
         ELSE arLog[1].slept =>
                /\ reconnectAttempt = arLog[1].before + 1
                /\ status = "reconnecting"
                /\ \E p \in procs : p.k = "sleep" /\ p.n = arLog[1].before + 1

\* C6 witness: the fifth attempt failed and the entry that followed gave up.
C6_Witness ==
  /\ arLog # Nothing
  /\ arLog[1].before = 5
  /\ status = "disconnected"

\* C7: when a reconnect attempt whose backoff sleep was overtaken by
\* connect() or disconnect() wakes, the step changes nothing but the
\* attempt's own end, whatever the reconnecting flag says.
C7_SupersededSleeperWakesInert ==
  [][\A p \in procs :
       (p.k = "sleep" /\ p.gen # generation /\ p \notin procs')
         => /\ procs' = procs \ {p}
            /\ UNCHANGED <<deviceRef, devType, subs, pollRef, watchdogRef, hbRef,
                           hbLeaked, lastData, status, connType, reconnectAttempt,
                           params, isReconnecting, generation>>]_vars

\* C7 witness: a superseded attempt has just woken while a newer
\* reconnection procedure holds the reconnecting flag and sleeps itself.
C7_Witness ==
  /\ wakeLog # Nothing
  /\ wakeLog[1].gen # generation
  /\ isReconnecting
  /\ \E q \in procs : q.k = "sleep" /\ q.gen = generation

\* C8: a connect() call or reconnect attempt that was superseded while
\* suspended (in the backoff sleep or awaiting the device) leaves the
\* current device, the subscriptions and the heartbeat timer alone when it
\* resumes.
C8_SupersededNeverInstalls ==
  [][\A p \in procs :
       (p.k \in {"connect", "sleep", "acquire"} /\ p.gen # generation /\ p \notin procs')
         => UNCHANGED <<deviceRef, subs, hbRef>>]_vars

\* C9: only the current device has live subscriptions, and no heartbeat
\* timer runs besides the one the session holds for the current device.
C9_SingleActiveDevice ==
  /\ subs \subseteq ({deviceRef} \ {0})
  /\ ~hbLeaked
  /\ hbRef => deviceRef # 0

\* C10: no two reconnect attempts of one generation are pending at once,
\* and a connection-loss signal that arrives while an attempt of the
\* current generation is pending starts no second backoff sleep.
C10_OneProcedurePerGeneration ==
  \A p, q \in Attempts : p.gen = q.gen => p = q

\* ----------------------------------------------------------------- C2
\* The envelope mgrOut answers: its packet id and the time it arrived.
LastId == mgrLast[1].id

LastAt == mgrRecv[LastId][1]

\* C2 as stated: whenever MQTTManager has handled two envelopes carrying the
\* same packet identifier p less than DEDUP_TTL_MS apart, the second one
\* emitted no message event and no node-update event.
C2_SecondWithinTtlSilent ==
  (/\ mgrLast # Nothing
   /\ mgrLast[1].prev # Nothing
   /\ LastAt - mgrLast[1].prev[1] < DEDUP_TTL_MS)
  => mgrOut = <<>>

\* C2 amended: for every non-zero packet identifier p, an envelope carrying p
\* that arrives less than DEDUP_TTL_MS after the last envelope carrying p that
\* passed the dedup check emits no message event and no node-update event,
\* whatever connects, disconnects, reconnects and cleanups lie in between.
C2_WithinTtlOfAcceptedSilent ==
  (/\ mgrLast # Nothing
   /\ LastId # 0
   /\ mgrLast[1].acc # Nothing
   /\ LastAt - mgrLast[1].acc[1] < DEDUP_TTL_MS)
  => mgrOut = <<>>

\* C2 witness: a second envelope with a non-zero id was suppressed half a TTL
\* after the accepted one, in a later broker connection (after a reconnect),
\* with the window holding more entries than the cleanup threshold.
C2_Witness ==
  /\ mgrLast # Nothing
  /\ LastId # 0
  /\ mgrLast[1].acc # Nothing
  /\ LastAt - mgrLast[1].acc[1] = TickMs
  /\ mgrOut = <<>>
  /\ mqRetry > 0
  /\ Cardinality(DOMAIN mgrSeen) > MgrPruneSize

\* ------------------------------------------------------------ C11
\* The step in which attemptReconnect found the budget used up and gave up.
GaveUp ==
  arLog # Nothing /\ arLog[1].before >= MAX_RECONNECT_ATTEMPTS /\ ~arLog[1].slept

\* C11: once the reconnection procedure has given up after its fifth failed
\* attempt, and with no connect() or disconnect() called, the status stays
\* disconnected and no reconnect attempt is sleeping or acquiring a device
\* ever again.
C11_BudgetTerminal ==
  [][(GaveUp /\ status = "disconnected" /\ Attempts = {})
       => (status' = "disconnected" /\ Attempts' = {})]_vars

\* ------------------------------------------------------------ C12 .. C16
\* The steps of the broker client's connect acknowledgment and close.
AckStep == mqClient = "opening" /\ mqClient' = "connected"

CloseStep == mqClient \in {"opening", "connected"} /\ mqClient' = "closed"

\* max_retries of the settings in force.
Budget == IF mqSettings[1].maxRetries = Nothing THEN 5 ELSE mqSettings[1].maxRetries[1]

\* The delay before reconnect number n.
MqttDelayTable == <<2000, 4000, 8000, 16000, 32000, 60000, 60000, 60000>>

\* C12: a connect acknowledgment sets the status connected; a close with
\* retry_count < max_retries increments retry_count, sets the status
\* connecting and arms one reconnect timer (none was pending) with the
\* computed delay; a close with retry_count >= max_retries sets the status
\* error, leaves retry_count alone and arms nothing.
C12_StatusTransitions ==
  [][/\ AckStep => mqStatus' = "connected"
     /\ (CloseStep /\ mqStatus # "disconnected" /\ mqSettings # Nothing) =>
          /\ ~mqTimer
          /\ IF mqRetry < Budget
               THEN /\ mqRetry' = mqRetry + 1
                    /\ mqStatus' = "connecting"
                    /\ mqTimer'
                    /\ mqDelay' = MqttDelayTable[mqRetry + 1]
               ELSE /\ mqStatus' = "error"
                    /\ mqRetry' = mqRetry
                    /\ ~mqTimer']_vars

\* C12 witness: the default budget of five retries was used up and the close
\* that followed ended in the status error.
C12_Witness ==
  /\ mqStatus = "error"
  /\ mqStep = Step("close", "exhausted", TRUE)
  /\ mqSettings[1].maxRetries = Nothing
  /\ mqRetry = 5
  /\ mqDelay = 32000

\* C13: once the status is error because the retry budget was used up, a
\* step of any handler but connect() and disconnect() leaves the status
\* error and opens no connection.
C13_ExhaustedIsTerminal ==
  [][(mqStatus = "error" /\ mqWhy = "exhausted"
      /\ mqStep'.op \notin {"connect", "disconnect"}) =>
       (mqStatus' = "error" /\ mqClient' # "opening" /\ ~mqTimer')]_vars

\* C14: once a non-transient error event has set the status error, the close
\* of the connection leaves the status error and arms no reconnect.
C14_FatalNeedsUser ==
  [][(mqStatus = "error" /\ mqWhy = "fatal" /\ CloseStep) =>
       (mqStatus' = "error" /\ ~mqTimer')]_vars

\* The codes the spec calls transient.
TransientCodes == {"ECONNRESET", "ECONNREFUSED", "ETIMEDOUT", "ENOTFOUND"}

\* C15: an error event with a transient code leaves status, retry_count and
\* the reconnect timer as they were and emits no error event; and the status
\* becomes error only in a close that finds the budget used up, in an error
\* event with another code, or in a subscribe that was refused.
C15_TransientAbsorbed ==
  [][/\ (mqStep'.op = "error" /\ mqStep'.arg \in TransientCodes) =>
          /\ UNCHANGED <<mqStatus, mqRetry, mqTimer, mqDelay, mqClient>>
          /\ ~mqStep'.emitted
     /\ (mqStatus # "error" /\ mqStatus' = "error") =>
          \/ CloseStep /\ mqRetry >= Budget
          \/ mqStep'.op = "error" /\ mqStep'.arg \notin TransientCodes
          \/ mqStep'.op = "subscribed" /\ mqStep'.arg = "failed"]_vars

\* C15 witness: a name-not-found error arrived on a connected session that
\* has a retry behind it, and the status is still connected.
C15_Witness ==
  /\ mqStep = Step("error", "ENOTFOUND", FALSE)
  /\ mqStatus = "connected"
  /\ mqRetry = 1

ByteOf(u, k) ==
  IF k = 0 THEN u.lo % 256
  ELSE IF k = 1 THEN (u.lo \div 256) % 256
  ELSE IF k = 2 THEN u.hi % 256
  ELSE (u.hi \div 256) % 256

\* C17: for every packet id and sender id, the counter block publish() uses
\* has 16 bytes, bytes 0-3 the packet id and bytes 4-7 the sender id, least
\* significant byte first, and bytes 8-15 zero; packet id 1 and sender 2 give
\* 01 00 00 00 02 00 00 00 and eight zero bytes; tryDecrypt() builds the same
\* block from the same packet id and sender.
C17_NonceLayout ==
  (mqPub # Nothing /\ ~mqPub[1].threw) =>
    LET nonce == mqPub[1].nonce[1]
        id == mqPub[1].ret[1]
        from == mqPub[1].from
    IN /\ Len(nonce) = 16
       /\ \A k \in 0 .. 3 : nonce[k + 1] = ByteOf(id, k) /\ nonce[k + 5] = ByteOf(from, k)
       /\ \A k \in 8 .. 15 : nonce[k + 1] = 0
       /\ (id = U32(0, 1) /\ from = U32(0, 2)) =>
            nonce = <<1, 0, 0, 0, 2, 0, 0, 0, 0, 0, 0, 0, 0, 0, 0, 0>>
       /\ tryDecryptNonce(id, from) = nonce

\* C17 (witness): a publish with a packet id and a sender that fill all four
\* bytes, and one with packet id 1 and sender 2.
C17_Witness ==
  /\ mqPub # Nothing
  /\ ~mqPub[1].threw
  /\ mqPub[1].ret[1] = U32(65535, 65535)
  /\ mqPub[1].from = U32(43981, 4660)

RECURSIVE WellFormedUnits(_)
WellFormedUnits(t) ==
  IF t = <<>> THEN TRUE
  ELSE IF IsHighSurrogate(t[1]) THEN
    Len(t) >= 2 /\ IsLowSurrogate(t[2]) /\ WellFormedUnits(Tail(Tail(t)))
  ELSE ~IsLowSurrogate(t[1]) /\ WellFormedUnits(Tail(t))

\* A text without an unpaired surrogate that does not begin with U+FEFF.
PlainText(t) == WellFormedUnits(t) /\ (t = <<>> \/ t[1] # 65279)

\* The envelope of the last publish() has been fed to the decode path, its
\* sender is not 0 and its packet id had not been accepted before.
FedFresh ==
  /\ mqPub # Nothing
  /\ mqPub[1].fed
  /\ mqPub[1].from # U32(0, 0)
  /\ mgrLast # Nothing
  /\ mgrLast[1].acc = Nothing

\* The decode path emitted one message with the sender, the returned packet
\* id and the text of the last publish(), and one node update for the sender.
RoundTripped ==
  /\ Len(mgrOut) = 2
  /\ mgrOut[1].type = "message"
  /\ mgrOut[1].sender_id = IdOf(mqPub[1].from)
  /\ mgrOut[1].packetId = IdOf(mqPub[1].ret[1])
  /\ mgrOut[1].payload = mqPub[1].text
  /\ mgrOut[2].type # "message"
  /\ mgrOut[2].node_id = IdOf(mqPub[1].from)

\* C18 as stated: for every text, the envelope of publish(text, from, ...)
\* fed to a bridge that has not seen its packet id yields one message with
\* sender_id = from, the returned packet id and payload = text, and one node
\* update for from.
C18_RoundTripAnyText == FedFresh => RoundTripped

\* C18 (amended): the same for every text that has no unpaired surrogate and
\* does not begin with a byte order mark.
C18_RoundTripPlainText == (FedFresh /\ PlainText(mqPub[1].text)) => RoundTripped

\* C18 (witness): a two-unit text outside the basic plane came back.
C18_Witness ==
  /\ FedFresh
  /\ mqPub[1].text = <<55357, 56832>>
  /\ mqPub[1].ret[1] # mqPub[1].from
  /\ RoundTripped

RECURSIVE TrimSlashes(_)
TrimSlashes(x) ==
  IF x # <<>> /\ x[Len(x)] = "/" THEN TrimSlashes(SubSeq(x, 1, Len(x) - 1)) ELSE x

HexValue(c) == CHOOSE d \in 0 .. 15 : HexDigits[d + 1] = c

\* C19: a publish() on a connected client hands client.publish exactly one
\* message, on the topic <prefix>/2/e/<channelName>/<gatewayId> with one
\* separator after the prefix, where gatewayId is "!" and the sender as eight
\* lower-case hexadecimal digits and is also the envelope's gatewayId; a
\* publish() without a connected client throws and hands over nothing.
C19_PublishTopic ==
  (mqPub # Nothing) =>
    LET r == mqPub[1] IN
    IF r.threw THEN r.sent = <<>> /\ r.ret = Nothing
    ELSE
      /\ Len(r.sent) = 1
      /\ LET gw == r.sent[1].envelope.gatewayId IN
         /\ Len(gw) = 9
         /\ gw[1] = "!"
         /\ \A i \in 2 .. 9 : \E d \in 0 .. 15 : HexDigits[d + 1] = gw[i]
         /\ HexValue(gw[2]) * 4096 + HexValue(gw[3]) * 256 + HexValue(gw[4]) * 16
              + HexValue(gw[5]) = r.from.hi
         /\ HexValue(gw[6]) * 4096 + HexValue(gw[7]) * 256 + HexValue(gw[8]) * 16
              + HexValue(gw[9]) = r.from.lo
         /\ r.sent[1].topic =
              TrimSlashes(r.settings[1].topicPrefix) \o <<"/", "2", "/", "e", "/">>
                \o r.channelName \o <<"/">> \o gw

\* C20: after the connect acknowledgment the bridge has asked for one
\* subscription, to the configured prefix with its trailing separators
\* replaced by a single one, followed by "#".
C20_SubscribeTopic ==
  (mqTopic # Nothing /\ mqSettings # Nothing) =>
    mqTopic[1] = TrimSlashes(mqSettings[1].topicPrefix) \o <<"/", "#">>

\* ------------------------------------------------------- C21 .. C23
\* The policy of the coordinate check, on 1e-7 degree integers.
OutOfPolicy(latI, lonI) ==
  \/ latI = 0 /\ lonI = 0
  \/ latI < -900000000 \/ latI > 900000000
  \/ lonI < -1800000000 \/ lonI > 1800000000
  \/ latI = 900000000 /\ lonI = 0

StoredLat(ns, n) == IF n \in DOMAIN ns THEN ns[n].latitude ELSE 0

StoredLon(ns, n) == IF n \in DOMAIN ns THEN ns[n].longitude ELSE 0

\* C21: validateCoords(lat, lon) is invalid, with a warning, exactly when
\* (lat, lon) = (0, 0), lat is outside [-90, 90], lon is outside [-180, 180]
\* or (lat, lon) = (90, 0), and valid without a warning otherwise; (0, 0),
\* (91, 0), (0, 181) and (90, 0) are invalid and (39.5, -104.9) is valid.
\* Stated for the coordinates of the radio position packet handled last,
\* whose verdict the node shows.
C21_ValidatorPolicy ==
  (posLog # <<>> /\ posLog[1].path = "position") =>
    LET lat == posLog[1].lat
        lon == posLog[1].lon
        r == validateCoords(lat, lon)
    IN /\ r.valid <=> ~OutOfPolicy(lat, lon)
       /\ r.valid <=> (r.warning = <<>>)
       /\ nodes[posLog[1].node].lastPositionWarning = r.warning
       /\ ~validateCoords(0, 0).valid
       /\ ~validateCoords(910000000, 0).valid
       /\ ~validateCoords(0, 1810000000).valid
       /\ ~validateCoords(900000000, 0).valid
       /\ validateCoords(395000000, -1049000000).valid

\* C21 (witness): a radio position packet with (90, 0) was rejected for a
\* node whose stored position is (39.5, -104.9).
C21_Witness ==
  /\ posLog # <<>>
  /\ posLog[1].path = "position"
  /\ posLog[1].lat = 900000000 /\ posLog[1].lon = 0
  /\ nodes[posLog[1].node].lastPositionWarning # <<>>
  /\ nodes[posLog[1].node].latitude = 395000000
  /\ nodes[posLog[1].node].longitude = -1049000000

\* C22: for the coordinates of the broker position handled last, coordWarning
\* returns a warning exactly when validateCoords says invalid, the two
\* warnings are the same string, and it is the warning the node shows.
C22_OnePolicy ==
  (posLog # <<>> /\ posLog[1].path = "broker") =>
    LET lat == posLog[1].lat
        lon == posLog[1].lon
        w == coordWarning(lat, lon)
        r == validateCoords(lat, lon)
    IN /\ (w # <<>>) <=> ~r.valid
       /\ w = r.warning
       /\ nodes[posLog[1].node].lastPositionWarning = r.warning

\* C22 (witness): a node known from the broker only shows the warning for a
\* longitude of 181.
C22_Witness ==
  /\ posLog # <<>>
  /\ posLog[1].path = "broker"
  /\ posLog[1].lon = 1810000000
  /\ posLog[1].node \notin radioObserved
  /\ nodes[posLog[1].node].lastPositionWarning # <<>>
  /\ nodes[posLog[1].node].lastPositionWarning[1].text = "Longitude out of range"
  /\ nodes[posLog[1].node].lastPositionWarning[1].val = 1810000

\* C23: a radio position packet, a radio node-info packet with coordinates
\* and a broker position whose coordinates fail the check leave the stored
\* latitude and longitude as they were and set the warning; with coordinates
\* that pass, the stored latitude and longitude are the new ones and the
\* warning is cleared.
C23_RejectedNeverOverwrites ==
  [][(posLog' # <<>> /\ (posLog' # posLog \/ nodes' # nodes)) =>
       LET n == posLog'[1].node
           lat == posLog'[1].lat
           lon == posLog'[1].lon
       IN IF OutOfPolicy(lat, lon)
            THEN /\ nodes'[n].latitude = StoredLat(nodes, n)
                 /\ nodes'[n].longitude = StoredLon(nodes, n)
                 /\ nodes'[n].lastPositionWarning # <<>>
            ELSE /\ nodes'[n].latitude = lat
                 /\ nodes'[n].longitude = lon
                 /\ nodes'[n].lastPositionWarning = <<>>]_vars

\* C23 (witness): a node whose stored position is (39.5, -104.9), taken from
\* a radio packet, shows the warning of a later (0, 0) report from the broker.
C23_Witness ==
  /\ posLog # <<>>
  /\ posLog[1].path = "broker"
  /\ posLog[1].lat = 0 /\ posLog[1].lon = 0
  /\ posLog[1].node \in radioObserved
  /\ nodes[posLog[1].node].latitude = 395000000
  /\ nodes[posLog[1].node].longitude = -1049000000
  /\ nodes[posLog[1].node].lastPositionWarning # <<>>
  /\ nodes[posLog[1].node].lastPositionWarning[1].text = "No GPS fix (0, 0)"

\* ------------------------------------------------------------ C24
\* C24: whenever connect() or a successful reconnect attempt has called
\* configure() on a device, the subscriptions of that device were wired at the
\* call, and after the handler the device is the one held and is subscribed.
C24_SubscribeBeforeConfigure ==
  cfgLog # <<>> =>
    /\ cfgLog[1].wired
    /\ cfgLog[1].dev \in subs
    /\ cfgLog[1].dev = deviceRef

\* C24 (witness): a reconnect attempt has acquired a device and called
\* configure() on it.
C24_Witness ==
  /\ cfgLog # <<>>
  /\ cfgLog[1].by = "attemptReconnect"
  /\ cfgLog[1].dev \in subs
  /\ status = "reconnecting"

\* A step of sendMessage up to its first await or its throw.
SendStep ==
  /\ sendLog' # sendLog
  /\ sendLog' # <<>>
  /\ sendLog'[1].route \in {"radio", "broker", "error"}

\* C25: sendMessage takes the radio path exactly when a device is held;
\* without a device it calls the bridge's publish exactly when the broker
\* status it was told is connected, as the operator's node (or the virtual
\* node) on LongFast; otherwise it throws, and then no message is appended
\* or saved, nothing is published and no call stays pending.
C25_SendRouting ==
  [][SendStep =>
       LET route == sendLog'[1].route
           began == sends' \ sends
       IN /\ (route = "radio") <=> (deviceRef # 0)
          /\ (route = "broker") <=> (deviceRef = 0 /\ mqttStatusRef = "connected")
          /\ (route = "error") <=> (deviceRef = 0 /\ mqttStatusRef # "connected")
          /\ messages' = messages /\ saved' = saved
          /\ route = "radio" =>
               /\ mqPub' = mqPub
               /\ Cardinality(began) = 1 /\ \A p \in began : p.k = "sendText"
          /\ route = "broker" =>
               /\ Cardinality(began) = 1 /\ \A p \in began : p.k = "publish"
               /\ mqPub' # <<>>
               /\ mqPub'[1].from = U32Of(IF myNodeNum # 0 THEN myNodeNum ELSE VirtualNodeId)
               /\ mqPub'[1].channelName = LongFast
               /\ (mqClient = "connected") => (~mqPub'[1].threw /\ Len(mqPub'[1].sent) = 1)
          /\ route = "error" => (mqPub' = mqPub /\ sends' = sends)]_vars

\* C25 (witness): without a device, a send went to a connected bridge and
\* was handed to the broker; its call is waiting for the packet id.
C25_Witness ==
  /\ sendLog # <<>> /\ sendLog[1].route = "broker"
  /\ deviceRef = 0
  /\ mqPub # <<>> /\ ~mqPub[1].threw /\ Len(mqPub[1].sent) = 1
  /\ \E p \in sends : p.k = "publish" /\ ~p.threw

\* A step in which a sendText call resumed, resolved or rejected.
SendTextResumed ==
  /\ sends' # sends
  /\ sendLog' # <<>>
  /\ sendLog'[1].route \in {"acked", "failed"}

\* C26: when sendText resolves with packet id p, or rejects with p, the
\* messages whose packetId is p take the status acked, or failed with the
\* rejection's error, and keep every other field; every other message is the same
\* object as before; the list keeps its length and order, and nothing is
\* appended to the saved messages. A rejection that carries no packet id
\* changes no message.
C26_StatusPerMessage ==
  [][SendTextResumed =>
       LET packetId == sendLog'[1].pid
           st == sendLog'[1].route
       IN /\ Len(messages') = Len(messages)
          /\ saved' = saved
          /\ \A i \in 1 .. Len(messages) :
               IF packetId # <<>> /\ messages[i].packetId = packetId[1]
                 THEN /\ messages'[i].status = Some(st)
                      /\ messages'[i].error =
                           (IF st = "failed" THEN Some("error") ELSE messages[i].error)
                      /\ [messages'[i] EXCEPT !.status = Nothing, !.error = Nothing]
                           = [messages[i] EXCEPT !.status = Nothing, !.error = Nothing]
                 ELSE messages'[i] = messages[i]]_vars

\* C26 (witness): two of the operator's texts are listed; the send of one was
\* rejected with its packet id and it is failed, the other is still sending.
C26_Witness ==
  /\ sendLog # <<>> /\ sendLog[1].route = "failed" /\ sendLog[1].pid # <<>>
  /\ Len(messages) = 2
  /\ \E i, j \in 1 .. 2 :
       /\ messages[i].packetId = sendLog[1].pid[1]
       /\ messages[i].status = Some("failed")
       /\ messages[j].packetId # sendLog[1].pid[1]
       /\ messages[j].status = Some("sending")

\* The events of one type among those the bridge emitted.
EventsOf(type) == {i \in 1 .. Len(mgrOut) : mgrOut[i].type = type}

\* The inner payload of the latest envelope could not be decrypted, or the
\* Data message or the port's payload could not be decoded.
InnerFailure(e) ==
  \/ e.payloadCase = "encrypted" /\ e.decrypt # "ok"
  \/ e.data.payload # <<>> /\ e.data.payload[1].bad

\* The latest envelope carries a text: the port is the text port and there
\* is a payload.
CarriesText(e) ==
  /\ ~(e.payloadCase = "encrypted" /\ e.decrypt # "ok")
  /\ e.data.portnum = "TEXT_MESSAGE_APP"
  /\ e.data.payload # <<>>

\* C27: for an envelope with a non-zero sender that is no duplicate and whose
\* packet is decoded or encrypted, the bridge emits exactly one node update,
\* for the sender and with the time of reception; it emits one message event
\* when the envelope carries a text and none otherwise, and nothing else;
\* when decrypting or decoding an inner payload failed, the one event is the
\* minimal node-seen update.
C27_FreshnessKept ==
  (/\ mgrLast # <<>>
   /\ ~mgrLast[1].dup
   /\ mgrLast[1].env.payloadCase \in {"decoded", "encrypted"})
  => LET e == mgrLast[1].env IN
     /\ Cardinality(EventsOf("nodeUpdate")) = 1
     /\ \A i \in EventsOf("nodeUpdate") :
          mgrOut[i].node_id = e.from /\ mgrOut[i].last_heard = LastAt /\ mgrOut[i].from_mqtt
     /\ Cardinality(EventsOf("message")) = (IF CarriesText(e) THEN 1 ELSE 0)
     /\ \A i \in EventsOf("message") :
          mgrOut[i].sender_id = e.from /\ mgrOut[i].payload = e.data.payload[1].text
     /\ Len(mgrOut) = Cardinality(EventsOf("nodeUpdate")) + Cardinality(EventsOf("message"))
     /\ InnerFailure(e) => mgrOut = <<emitMinimalNodeUpdate(e.from, LastAt)>>

\* C27 (witness): an encrypted envelope was decrypted and its position
\* payload did not decode; the bridge emitted the minimal update alone.
C27_Witness ==
  /\ mgrLast # <<>> /\ ~mgrLast[1].dup
  /\ mgrLast[1].env.payloadCase = "encrypted" /\ mgrLast[1].env.decrypt = "ok"
  /\ mgrLast[1].env.data.portnum = "POSITION_APP"
  /\ mgrLast[1].env.data.payload[1].bad
  /\ mgrOut = <<emitMinimalNodeUpdate(mgrLast[1].env.from, LastAt)>>

\* A step in which the watchdog interval fired.
WatchdogStep == evLog' # <<>> /\ evLog'[1].h = "watchdog" /\ now' = now

\* A step in which a subscriber of the device's events ran.
InboundStep == evLog' # <<>> /\ evLog'[1].h = "event" /\ now' = now

\* The time since data was last received, at the start of the step.
Elapsed == now - lastData

\* The thresholds in seconds per remembered transport kind.
StaleSeconds(type) == IF type = "ble" THEN 90 ELSE IF type = "serial" THEN 120 ELSE 60

DeadSeconds(type) == IF type = "ble" THEN 180 ELSE IF type = "serial" THEN 300 ELSE 120

\* At the start of the step the data is stale and not dead for the
\* remembered transport, and the status is connected or configured.
StaleRange ==
  /\ params # <<>>
  /\ status \in {"connected", "configured"}
  /\ Elapsed > 1000 * StaleSeconds(params[1].type)
  /\ Elapsed <= 1000 * DeadSeconds(params[1].type)

\* The same with no reconnect in progress.
StaleDue == ~isReconnecting /\ StaleRange

\* The step sets the status stale and tears nothing down.
MarkedStale ==
  /\ status' = "stale"
  /\ UNCHANGED <<deviceRef, subs, pollRef, watchdogRef, hbRef, hbLeaked, procs,
                 reconnectAttempt, generation, isReconnecting, params, lastData>>

C29_DeadPerTransport ==
  [][(WatchdogStep /\ params # <<>>) =>
       LET type == params[1].type
           call == evLog'[1].call
           dead == 1000 * DeadSeconds(type)
           stale == 1000 * StaleSeconds(type)
       IN /\ (call = "handleConnectionLost") <=> (~isReconnecting /\ Elapsed > dead)
          /\ (call = "stale") <=> (~isReconnecting /\ Elapsed > stale /\ Elapsed <= dead)
          /\ (status' = "stale" /\ status # "stale") => call = "stale"
          /\ call # "handleConnectionLost" =>
               UNCHANGED <<deviceRef, subs, pollRef, watchdogRef, hbRef, procs,
                           reconnectAttempt, isReconnecting>>
          /\ call = "handleConnectionLost" =>
               /\ deviceRef' = 0 /\ subs' = {}
               /\ ~pollRef' /\ ~watchdogRef' /\ ~hbRef'
               /\ status' \in {"reconnecting", "disconnected"}
               /\ status' = "reconnecting" => isReconnecting'
          /\ stale < dead
          /\ getThresholds(params) = [stale |-> stale, dead |-> dead]]_vars

\* C29 (witness): over serial, with the last data more than 300 s old, the
\* watchdog called the loss handler and the session is reconnecting.
C29_Witness ==
  /\ evLog # <<>> /\ evLog[1].h = "watchdog" /\ evLog[1].call = "handleConnectionLost"
  /\ params # <<>> /\ params[1].type = "serial"
  /\ now - lastData > 300000
  /\ status = "reconnecting" /\ isReconnecting /\ deviceRef = 0

\* A step in which a heartbeat write failed or the GATT listener ran.
HeartbeatLossStep ==
  /\ evLog' # <<>>
  /\ evLog'[1].h \in {"heartbeat", "gatt"}
  /\ ~evLog'[1].ok
  /\ now' = now

\* C30: a failed heartbeat write or a GATT disconnect notification starts
\* the connection-loss handling in the same step, whatever the age of the
\* last data: unless a reconnect is already in progress, the device, the
\* subscriptions and the timers are dropped and the reconnect loop is
\* entered; and a heartbeat timer runs only while the device held, if any,
\* is a ble device.
C30_HeartbeatLossImmediate ==
  [][/\ (HeartbeatLossStep /\ ~isReconnecting) =>
          /\ deviceRef' = 0 /\ subs' = {}
          /\ ~pollRef' /\ ~watchdogRef' /\ ~hbRef'
          /\ status' \in {"reconnecting", "disconnected"}
          /\ status' = "reconnecting" => isReconnecting'
     /\ ((hbRef' \/ hbLeaked') /\ deviceRef' # 0) => devType'[deviceRef'] = "ble"]_vars

\* A step in which a disconnect() call completed.
DisconnectCompleted == discLog' # <<>> /\ discLog' # discLog

\* The session holds nothing: no device, no subscription, no running timer,
\* no remembered parameters, no reconnect in progress, status disconnected.
TornDown ==
  /\ deviceRef = 0 /\ subs = {}
  /\ ~watchdogRef /\ ~pollRef /\ ~hbRef /\ ~hbLeaked
  /\ params = <<>> /\ reconnectAttempt = 0 /\ ~isReconnecting
  /\ status = "disconnected"

\* C31: when a disconnect() that no connect() overlaps completes, the
\* generation is one more than the call found, and the session holds
\* nothing; and from then until connect() or disconnect() is called again
\* no watchdog, polling or heartbeat timer is running.
C31_DisconnectPost ==
  [][/\ DisconnectCompleted => (TornDown' /\ generation' = discLog'[1].from + 1)
     /\ (discLog # <<>> /\ discLog' = discLog) =>
          (~watchdogRef' /\ ~pollRef' /\ ~hbRef' /\ ~hbLeaked')]_vars

\* A step in which createConnection threw in connect().
ConnectFailed == evLog' # <<>> /\ evLog'[1].h = "connect" /\ now' = now

\* C32: when createConnection throws in connect(), the call rethrows the
\* error and leaves status disconnected, no device, no subscription, and no
\* watchdog, polling or heartbeat timer; it starts no reconnect: the
\* reconnecting flag and the attempt counter are as before and no reconnect
\* attempt is added to the pending calls.
C32_ConnectFailure ==
  [][ConnectFailed =>
       /\ evLog'[1].threw
       /\ status' = "disconnected"
       /\ deviceRef' = 0 /\ subs' = {}
       /\ ~watchdogRef' /\ ~pollRef' /\ ~hbRef' /\ ~hbLeaked'
       /\ isReconnecting' = isReconnecting /\ reconnectAttempt' = reconnectAttempt
       /\ procs' \subseteq procs
       /\ \A q \in procs \ procs' : q.k = "connect"]_vars

\* The session is quiescent: its status is disconnected, or a reconnect
\* attempt is in its backoff sleep.
Quiescent == status = "disconnected" \/ \E p \in procs : p.k = "sleep"

\* No device, no device event subscription, and no watchdog, polling or
\* heartbeat timer.
NoResources ==
  /\ deviceRef = 0 /\ subs = {}
  /\ ~watchdogRef /\ ~pollRef /\ ~hbRef /\ ~hbLeaked

\* C33: in every reachable state with status disconnected or with a
\* reconnect attempt in its backoff sleep, no device is held, no device event
\* subscription exists, and the watchdog, polling and heartbeat timers are
\* stopped.
C33_QuiescentHoldsNothing == Quiescent => NoResources

\* A step of connect(settings): the last handler is connect, and it was
\* another one before or the settings are new.
BrokerConnectStep ==
  mqStep'.op = "connect" /\ (mqStep.op # "connect" \/ mqSettings' # mqSettings)

\* C34: at most one broker client is live and at most one reconnect timer is
\* pending, and the client field and the timer field account for all of
\* them; a connect(settings) step ends with one live client, the one it
\* opened, with no reconnect timer pending and with retryCount 0.
C34_OneClientOneTimer ==
  [][/\ mqLive' \in {0, 1} /\ mqTimers' \in {0, 1}
     /\ (mqLive' = 1) = (mqClient' \in {"opening", "connected"})
     /\ (mqTimers' = 1) = mqTimer'
     /\ BrokerConnectStep =>
          (mqLive' = 1 /\ mqClient' = "opening" /\ mqTimers' = 0 /\ mqRetry' = 0)]_vars

\* C34 (witness): connect(settings) has just been called over a session that
\* was waiting for its reconnect timer after a retry; the timer is gone, the
\* retry count is 0 and one client is opening.
C34_Witness ==
  /\ mqStep.op = "connect"
  /\ mqDelay > 0
  /\ mqLive = 1 /\ mqTimers = 0 /\ mqRetry = 0 /\ mqClient = "opening"

\* currentSettings is null: from disconnect() until the next connect()
\* (and before the first connect()).
BrokerOff == mqSettings = Nothing

\* C35: from disconnect() until the next connect() the status is
\* disconnected, no reconnect timer is pending, no client is live and none is
\* created, no handler of the session runs (the close of the ended client
\* included, so no retry is counted), and onMessage emits nothing.
C35_DisconnectFinal ==
  [][/\ BrokerOff' =>
          /\ mqStatus' = "disconnected"
          /\ ~mqTimer' /\ mqTimers' = 0
          /\ mqClient' = "null" /\ mqLive' = 0
          /\ mqRetry' = 0
     /\ (BrokerOff /\ BrokerOff') =>
          /\ mqStep'.op \in {"none", "disconnect"}
          /\ mgrOut' = mgrOut /\ mgrRecv' = mgrRecv /\ mgrSeen' = mgrSeen]_vars

\* C35 (witness): disconnect() was called in a session that had armed a
\* reconnect timer and had emitted events; time has passed since and the
\* session is still disconnected.
C35_Witness ==
  /\ mqStep.op = "disconnect" /\ BrokerOff
  /\ mqDelay > 0 /\ mgrOut # <<>>
  /\ mqStatus = "disconnected"
  /\ \E id \in PacketIds : mgrRecv[id] # Nothing /\ mgrRecv[id][1] < now

\* existing.altitude of node n (emptyNode has none).
StoredAlt(ns, n) == IF n \in DOMAIN ns THEN ns[n].altitude ELSE Nothing

\* C36: a radio node-info packet whose coordinates fail the check leaves the
\* node's stored altitude, latitude and longitude as they were and sets the
\* warning.
C36_RejectedKeepsAltitude ==
  [][(/\ posLog' # <<>> /\ posLog'[1].path = "nodeinfo"
      /\ (posLog' # posLog \/ nodes' # nodes)
      /\ OutOfPolicy(posLog'[1].lat, posLog'[1].lon)) =>
       LET n == posLog'[1].node
       IN /\ nodes'[n].altitude = StoredAlt(nodes, n)
          /\ nodes'[n].latitude = StoredLat(nodes, n)
          /\ nodes'[n].longitude = StoredLon(nodes, n)
          /\ nodes'[n].lastPositionWarning # <<>>]_vars

\* A step in which a heartbeat write fails that was started on a device
\* other than the one held now, when a newer device is held or disconnect()
\* has cleared the connection parameters.
StaleHeartbeatFails ==
  /\ evLog' # <<>> /\ evLog'[1].h = "heartbeat" /\ ~evLog'[1].ok
  /\ now' = now
  /\ evLog'[1].dev # deviceRef
  /\ (deviceRef # 0 \/ params = <<>>)

\* C37: the failure of a heartbeat write started on an earlier device leaves
\* the device held, its subscriptions and the timers as they are, and starts
\* no reconnect: the reconnecting flag and the attempt counter are
\* unchanged, the status does not become reconnecting and no reconnect
\* attempt is added to the pending calls.
C37_StaleHeartbeatInert ==
  [][StaleHeartbeatFails =>
       /\ deviceRef' = deviceRef /\ subs' = subs
       /\ watchdogRef' = watchdogRef /\ pollRef' = pollRef /\ hbRef' = hbRef
       /\ isReconnecting' = isReconnecting
       /\ (status' = "reconnecting" => status = "reconnecting")
       /\ reconnectAttempt' = reconnectAttempt
       /\ procs' \subseteq procs]_vars

\* A step in which the renderer handles a broker message event.
BrokerMessageStep == mqHist' # mqHist

\* The event of the step has the sender, timestamp and payload of a message
\* already in the list.
ContentDuplicate ==
  /\ mgrOut' # <<>>
  /\ \E i \in 1 .. Len(messages) :
       /\ messages[i].sender_id = mgrOut'[1].sender_id
       /\ messages[i].timestamp = mgrOut'[1].timestamp
       /\ messages[i].payload = mgrOut'[1].payload

\* C39: a broker message event is saved to the store exactly when it is
\* appended to the message list: the step adds one element to both or to
\* neither, and a content duplicate adds to neither.
C39_ListAndStoreInStep ==
  [][BrokerMessageStep =>
       /\ Len(saved') - Len(saved) = Len(messages') - Len(messages)
       /\ ContentDuplicate => (messages' = messages /\ saved' = saved)]_vars

\* The message sendMessage appended for a publish (from_mqtt is undefined
\* there), and the one the mqtt.onMessage listener appended.
OwnCopy(m) == ~m.from_mqtt

EchoCopy(m) == m.from_mqtt

\* C38: the list never holds, next to the message sendMessage appended for a
\* publish, a second copy with the same packet id and sender that came in
\* over the broker subscription; and when publish() has returned packet id
\* p to sendMessage, the list holds a message with packet id p and status
\* acked.
C38_BrokerSentOnce ==
  /\ \A i, j \in 1 .. Len(messages) :
       (/\ OwnCopy(messages[i]) /\ EchoCopy(messages[j])
        /\ messages[i].sender_id = messages[j].sender_id)
         => messages[i].packetId # messages[j].packetId
  /\ (sendLog # <<>> /\ sendLog[1].route = "published") =>
       \E i \in 1 .. Len(messages) :
          /\ messages[i].packetId = sendLog[1].pid[1]
          /\ messages[i].status = Some("acked")
====
